---- MODULE Spec2Model ----
(***************************************************************************)
(* LifeFolder: the client state stores (items, categories, tags,          *)
(* reminders) and the gateways they call, over a hosted relational store   *)
(* and blob store.  Every store action is an async function: it runs       *)
(* synchronously up to its next `await`, and each awaited remote call       *)
(* resolves in a later step, so actions of one store interleave at their   *)
(* awaits.  An in-flight action is an entry of `ops`.                       *)
(***************************************************************************)
EXTENDS Integers, Sequences, FiniteSets, TLC

(* ---------------------------- bounds ---------------------------------- *)
\* item ids 1..MaxItems; ids are handed out in creation order
MaxItems == 3
\* rows of the items table when the app starts
InitItems == MaxItems - 1
\* page size of the list query (the store passes limit: 20; scaled down)
PageLimit == 1
\* cap of the pagination cursor
MaxPage == 3
\* store actions in flight at once
MaxOps == 2
\* cap of the held items list (appends are not started beyond it)
MaxHeld == MaxItems

None == "none"
Slots == 1..MaxOps
ItemIds == 1..MaxItems
\* category / tag ids in the order the tables hand them out
CatOrder == <<"c1", "c2">>
TagOrder == <<"t1", "t2">>
CatIds == {CatOrder[k] : k \in 1..Len(CatOrder)}
TagIds == {TagOrder[k] : k \in 1..Len(TagOrder)}
\* names a category or a tag is given
Names == {"a", "B"}
\* notify_at values of reminders
Times == {0, 1, 2}
\* reminder ids 1..MaxRems
MaxRems == 2
RemIds == 1..MaxRems
Files == {"f1", "f2"}

\* The user-facing calls each scenario makes.  A behaviour exercises one scenario
\* (focus); continuations of the calls in flight are always enabled.
Calls ==
  [paging |-> {"fetchItems", "loadMore"},
   overlap |-> {"fetchItems", "setFilters"},
   misc |-> {"loadMore", "clearFilters", "searchItems", "reset", "clearError"},
   create |-> {"createItem", "setFilters"},
   update |-> {"updateItem", "fetchItems"},
   detail |-> {"updateItem", "fetchItemById", "clearCurrentItem"},
   delete |-> {"deleteItem", "fetchItems", "fetchItemById"},
   categories |-> {"fetchCategories", "createCategory", "updateCategory", "deleteCategory"},
   category |-> {"fetchCategories", "fetchCategoryById", "updateCategory", "deleteCategory"},
   tags |-> {"fetchTags", "createTag", "updateTag", "deleteTag"},
   tagcount |-> {"fetchTagsWithCount", "createTag", "updateTag"},
   tagpick |-> {"fetchTags", "fetchTagsWithCount", "toggleTagSelection", "deleteTag"},
   reminders |-> {"createReminder"},
   remedit |-> {"fetchReminders", "fetchReminderById", "updateReminder"},
   today |-> {"fetchTodayReminders", "fetchUpcomingReminders", "updateReminder"},
   remdelete |-> {"fetchReminders", "deleteReminder"},
   sent |-> {"fetchOverdueReminders", "markAsSent", "fetchReminderCounts"},
   owner |-> {"tagsApi.deleteTag", "tagsApi.removeTagsFromItem", "tagsApi.getTagsForItem"},
   auth |-> {"initialize", "onAuthStateChange"},
   signin |-> {"initialize", "signInWithGoogle"},
   session |-> {"initialize", "signInWithGoogle", "onAuthStateChange"},
   account |-> {"initialize", "signOut", "refreshSession", "setUser"},
   relative |-> {"formatRelativeTime"},
   sections |-> {"getSections"},
   biometric |-> {"performBiometricCheck"}]
Scenarios == DOMAIN Calls
\* the screens call fetchItems with refresh = true only (HomeScreen); the append
\* path runs through loadMore
RefreshArgs == {TRUE}

VARIABLES
  \* hosted relational store and blob store
  dbItems,      \* item id -> [exists, category_id]
  dbItemTags,   \* set of <<item id, tag id>> join rows
  dbAtt,        \* attachment rows: set of <<item id, file>> (the blob path)
  blobs,        \* blob store: set of paths <<item id, file>>
  dbCats,       \* category id -> name or None (no row)
  dbTags,       \* tag id -> name or None (no row)
  nextId,       \* next item id the items table hands out
  dbReminders,  \* reminder id -> [exists, item_id, notify_at, is_sent]
  nextCat, nextTag, nextRem,   \* next category / tag (index of the order) / reminder id
  scheduled,    \* local notifications scheduled on the device: set of <<reminder id, notify_at>>
  \* Items store (items.store.ts)
  items, currentItem, filters, isLoading, isRefreshing, error, page, hasMore, total,
  \* Categories store (categories.store.ts)
  categories, currentCategory, catIsLoading, catError,
  \* Tags store (tags.store.ts)
  tags, tagsWithCount, currentTag, selectedTagIds, tagIsLoading, tagError,
  \* Reminders store (reminders.store.ts)
  reminders, upcomingReminders, overdueReminders, todayReminders, currentReminder, counts,
  remIsLoading, remError,
  \* Auth store (part_011): the record [user, session, isAuthenticated, isLoading,
  \* isInitialized, error]
  auth,
  listeners,    \* callbacks registered with supabase.auth.onAuthStateChange
  persist,      \* the background supabase.auth.setSession: "none", "pending", "ok", "failed"
  mounted,      \* App has mounted and run its effect (App.tsx:90-93)
  \* what the screens render with the date utilities (part_010)
  relative,     \* the last formatRelativeTime call: [offset, text]
  sections,     \* the last getSections call of the reminder center: [now, list, out]
  \* the biometric gate (part_009): the secure store and device at the moment of a
  \* performBiometricCheck call, and what the call returned
  gate,
  \* in-flight store actions
  ops,
  \* the store action invoked by the last step ("-" for a continuation)
  ev,
  \* the scenario this behaviour exercises
  focus,
  \* the route parameter itemId of the detail / edit screen
  shown

dbVars == <<dbItems, dbItemTags, dbAtt, blobs, dbCats, dbTags, nextId, dbReminders>>
itemsVars == <<items, currentItem, filters, isLoading, isRefreshing, error, page, hasMore, total>>
catVars == <<categories, currentCategory, catIsLoading, catError>>
tagVars == <<tags, tagsWithCount, currentTag, selectedTagIds, tagIsLoading, tagError>>
remVars == <<reminders, upcomingReminders, overdueReminders, todayReminders, currentReminder,
             counts, remIsLoading, remError>>
\* what no action of the Items store writes
authVars == <<auth, listeners, persist, mounted>>
screenVars == <<relative, sections, gate>>
notItems == <<catVars, tagVars, remVars, nextCat, nextTag, nextRem, scheduled, authVars, screenVars>>
vars == <<dbVars, itemsVars, notItems, ops, ev, focus, shown>>

(* ---------------------------- helpers --------------------------------- *)
Max(S) == CHOOSE m \in S : \A x \in S : x <= m
Min(a, b) == IF a <= b THEN a ELSE b

RECURSIVE SortedDesc(_)
SortedDesc(S) == IF S = {} THEN <<>> ELSE LET m == Max(S) IN <<m>> \o SortedDesc(S \ {m})

RECURSIVE SetToSeq(_)
SetToSeq(S) == IF S = {} THEN <<>> ELSE LET m == CHOOSE x \in S : TRUE IN <<m>> \o SetToSeq(S \ {m})

SeqFilter(s, Keep(_)) == SelectSeq(s, Keep)
SeqMap(s, F(_)) == [k \in 1..Len(s) |-> F(s[k])]
Range(s) == {s[k] : k \in 1..Len(s)}

\* the signed-in user, and a second account with one item carrying one tag of its own
Me == "A"
OtherUser == "B"
OtherItem == MaxItems + 1
OtherTag == "tB"
OwnerOfItem(i) == IF i \in ItemIds THEN Me ELSE OtherUser
OwnerOfTag(t) == IF t \in TagIds THEN Me ELSE OtherUser

NoRow == [exists |-> FALSE, category_id |-> None]
NoReminderRow == [exists |-> FALSE, item_id |-> 0, notify_at |-> 0, is_sent |-> FALSE]
ExistingCats == {c \in CatIds : dbCats[c] # None}
ExistingTags == {t \in TagIds : dbTags[t] # None}
ExistingItems == {i \in ItemIds : dbItems[i].exists}

Allowed(call) == call \in Calls[focus]

(* ---------------------------- op records ------------------------------ *)
initialFilters == [categoryId |-> None]

\* the null record of a category / tag slot and of a reminder slot
NoNamed == [id |-> None, name |-> None]
NoReminder == [id |-> 0, item_id |-> 0, notify_at |-> 0, is_sent |-> FALSE]

\* the null record of an item slot
NoItem == [id |-> 0, category_id |-> None, category |-> None, attachments |-> {}, tags |-> {}]

\* one in-flight store action: its position (pc), its arguments and locals, and
\* what it has done so far (log: the remote calls it issued, in order;
\* failedCall: one of them failed; touched: it wrote the held collection)
Idle == [kind |-> "idle", pc |-> "-", refresh |-> FALSE, page |-> 0, filt |-> initialFilters,
         item |-> 0, cat |-> None, tagIds |-> {}, hasTags |-> FALSE,
         tag |-> None, name |-> None, rem |-> 0, at |-> 0,
         files |-> {}, pend |-> {}, up |-> {}, batches |-> <<>>, log |-> <<>>,
         failedCall |-> FALSE, touched |-> FALSE, result |-> "-", read |-> {}, err |-> None,
         overtaken |-> FALSE]

Free == {s \in Slots : ops[s].kind = "idle"}
\* a screen submits one mutation at a time (the create / edit / detail screens swap
\* the submit button for a spinner while isSubmitting); fetches overlap freely
Mutations == {"createItem", "updateItem", "deleteItem",
              "createCategory", "updateCategory", "deleteCategory",
              "createTag", "updateTag", "deleteTag",
              "createReminder", "updateReminder", "deleteReminder"}
CanSubmit == Free # {} /\ \A s \in Slots : ops[s].kind \notin Mutations
NewSlot == CHOOSE s \in Free : \A t \in Free : s <= t

(* ---------------------------- gateway: items.api ---------------------- *)
\* the embedded select of getItems: the row with its category, attachments and tags
ItemWithRelations(i) ==
  [id |-> i,
   category_id |-> dbItems[i].category_id,
   category |-> IF dbItems[i].category_id # None /\ dbCats[dbItems[i].category_id] # None
                THEN dbItems[i].category_id ELSE None,
   attachments |-> {a \in dbAtt : a[1] = i},
   tags |-> {t \in TagIds : <<i, t>> \in dbItemTags /\ dbTags[t] # None}]

\* rows of the list query: owner's rows, category filter, created_at descending
QueryRows(filt) ==
  SortedDesc({i \in ExistingItems :
                filt.categoryId = None \/ dbItems[i].category_id = filt.categoryId})

\* getItems: range(offset, offset + limit - 1) with an exact count
getItems(filt, pg) ==
  LET rows == QueryRows(filt)
      count == Len(rows)
      offset == (pg - 1) * PageLimit
      last == Min(offset + PageLimit, count)
      data == [k \in 1..(IF last > offset THEN last - offset ELSE 0) |->
                 ItemWithRelations(rows[offset + k])]
  IN [ok |-> TRUE, data |-> data, total |-> count, hasMore |-> offset + PageLimit < count]

(* ---------------------------- Items store ----------------------------- *)
\* room for one more appended page, counting the appends already in flight
AppendRoom ==
  Len(items) + PageLimit * (1 + Cardinality({s \in Slots : ops[s].kind = "fetchItems"
                                                            /\ ~ops[s].refresh
                                                            /\ ops[s].pc # "done"}))
    <= MaxHeld

\* this op's own writes to the held collection / current-record slot
Touch(o, newItems, newCurrent) ==
  [o EXCEPT !.touched = @ \/ newItems # items \/ newCurrent # currentItem]

\* a merge that appends whatever the refresh flag says
MergeAlwaysAppend(refresh, held, data) == held \o data

\* a merge that keeps what an earlier response put in the store
MergeFirstWins(refresh, held, data) == IF held # <<>> THEN held ELSE data

\* items.store.ts:96
MergeFetched(refresh, held, data) == IF refresh THEN data ELSE held \o data

\* a guard that looks at the loading flag only
LoadMoreGuardNoHasMore(hm, loading) == ~loading

\* items.store.ts:300 (TRUE: loadMore goes on to fetch)
LoadMoreGuard(hm, loading) == hm /\ ~loading

\* the fetchItems(userId, true) calls awaiting their list query
RefreshesInFlight ==
  {t \in Slots : ops[t].kind = "fetchItems" /\ ops[t].refresh /\ ops[t].pc = "getItems"}

\* fetchItems up to its await: flags, then the request with the page it read
FetchItems(refresh) ==
  /\ Allowed("fetchItems")
  /\ Free # {}
  /\ refresh \/ AppendRoom
  /\ IF refresh
     THEN /\ isRefreshing' = TRUE
          /\ page' = 1
          /\ UNCHANGED isLoading
     ELSE /\ isLoading' = TRUE
          /\ UNCHANGED <<isRefreshing, page>>
  /\ ops' = [ops EXCEPT ![NewSlot] =
               [Idle EXCEPT !.kind = "fetchItems", !.pc = "getItems", !.refresh = refresh,
                            !.page = page, !.filt = filters]]
  /\ ev' = "-"
  /\ UNCHANGED <<dbVars, items, currentItem, filters, error, hasMore, total, focus, shown, notItems>>

\* loadMore: the guard, the cursor bump, then fetchItems(userId) up to its await
LoadMore ==
  /\ Allowed("loadMore")
  /\ ev' = "loadMore"
  /\ IF LoadMoreGuard(hasMore, isLoading) /\ page < MaxPage /\ Free # {} /\ AppendRoom
     THEN /\ page' = page + 1
          /\ isLoading' = TRUE
          /\ ops' = [ops EXCEPT ![NewSlot] =
                       [Idle EXCEPT !.kind = "fetchItems", !.pc = "getItems",
                                    !.page = page + 1, !.filt = filters]]
          /\ UNCHANGED <<dbVars, items, currentItem, filters, isRefreshing, error,
                         hasMore, total, focus, shown, notItems>>
     ELSE /\ ~LoadMoreGuard(hasMore, isLoading)
          /\ UNCHANGED <<dbVars, itemsVars, ops, focus, shown, notItems>>

\* the list query resolves and fetchItems resumes: the success set (95-103) or
\* the catch (104-110)
FetchItemsResume(s, ok) ==
  LET o == ops[s]
      result == getItems(o.filt, IF o.refresh THEN 1 ELSE o.page)
      newItems == IF ok THEN MergeFetched(o.refresh, items, result.data) ELSE items
  IN /\ items' = newItems
     /\ isLoading' = FALSE
     /\ isRefreshing' = FALSE
     /\ IF ok
        THEN /\ total' = result.total
             /\ hasMore' = result.hasMore
             /\ page' = IF o.refresh THEN 1 ELSE o.page
             /\ error' = None
        ELSE /\ error' = "Failed to fetch items"
             /\ UNCHANGED <<total, hasMore, page>>
     /\ UNCHANGED <<currentItem, filters>>

FetchItemsDone(s, ok) ==
  /\ ops[s].kind = "fetchItems"
  /\ ops[s].pc = "getItems"
  /\ FetchItemsResume(s, ok)
  \* overtaken: a refresh that overlapped this one has completed successfully
  /\ ops' = [t \in Slots |->
               IF t = s THEN Idle
               ELSE IF t \in RefreshesInFlight /\ ok /\ ops[s].refresh
                    THEN [ops[t] EXCEPT !.overtaken = TRUE]
                    ELSE ops[t]]
  /\ ev' = IF ok /\ ops[s].refresh /\ ops[s].overtaken THEN "lastRefresh:" \o ops[s].filt.categoryId
           ELSE "-"
  /\ UNCHANGED <<dbVars, focus, shown, notItems>>

\* the caller drops the settled promise
Retire(s) ==
  /\ ops[s].pc = "done"
  /\ ops[s].pend = {}
  /\ ops' = [ops EXCEPT ![s] = Idle]
  /\ ev' = "-"
  /\ UNCHANGED <<dbVars, itemsVars, focus, shown, notItems>>

(* ---- fetchItemById (items.store.ts:115-135) ---- *)
FetchItemById(i) ==
  /\ Allowed("fetchItemById")
  /\ Free # {}
  /\ i = shown
  /\ isLoading' = TRUE
  /\ error' = None
  /\ ops' = [ops EXCEPT ![NewSlot] =
               [Idle EXCEPT !.kind = "fetchItemById", !.pc = "getItemById", !.item = i,
                            !.log = <<<<"getItemById", {}>>>>]]
  /\ ev' = "-"
  /\ UNCHANGED <<dbVars, items, currentItem, filters, isRefreshing, page, hasMore, total, focus, shown, notItems>>

FetchItemByIdDone(s, ok) ==
  LET o == ops[s]
      found == IF dbItems[o.item].exists THEN ItemWithRelations(o.item) ELSE NoItem
      newCurrent == IF ok THEN found ELSE currentItem
  IN /\ o.kind = "fetchItemById"
     /\ o.pc = "getItemById"
     /\ currentItem' = newCurrent
     /\ isLoading' = FALSE
     /\ error' = IF ok THEN error ELSE "Failed to fetch item"
     /\ ops' = [ops EXCEPT ![s] = Idle]
     /\ ev' = "-"
     /\ UNCHANGED <<dbVars, items, filters, isRefreshing, page, hasMore, total, focus, shown, notItems>>

(* ---- createItem (items.store.ts:148-192) ---- *)
\* a sequencing that uploads the files before it links the tags
CreateItemNextUploadFirst(pc, tagIds, files) ==
  CASE pc = "insert" -> IF files # {} THEN "upload"
                         ELSE IF tagIds # {} THEN "addTags" ELSE "refresh"
    [] pc = "upload" -> "attach"
    [] pc = "attach" -> IF tagIds # {} THEN "addTags" ELSE "refresh"
    [] OTHER -> "refresh"

\* the remote step createItem awaits after `pc`
CreateItemNext(pc, tagIds, files) ==
  CASE pc = "insert" -> IF tagIds # {} THEN "addTags"
                         ELSE IF files # {} THEN "upload" ELSE "refresh"
    [] pc = "addTags" -> IF files # {} THEN "upload" ELSE "refresh"
    [] pc = "upload" -> "attach"
    [] OTHER -> "refresh"

\* a catch block that also drops the held list
CatchDroppingItems(s, o, msg, res) ==
  /\ isLoading' = FALSE
  /\ error' = msg
  /\ items' = <<>>
  /\ ops' = [ops EXCEPT ![s] = [o EXCEPT !.pc = "done", !.failedCall = TRUE, !.result = res]]
  /\ UNCHANGED <<currentItem, filters, isRefreshing, page, hasMore, total>>

\* the catch block of a mutating action: flags only
Catch(s, o, msg, res) ==
  /\ isLoading' = FALSE
  /\ error' = msg
  /\ ops' = [ops EXCEPT ![s] = [o EXCEPT !.pc = "done", !.failedCall = TRUE, !.result = res]]
  /\ UNCHANGED <<items, currentItem, filters, isRefreshing, page, hasMore, total>>

\* createItem goes on to its next await; "refresh" is fetchItems(userId, true)
\* up to its own await (items.store.ts:81-93)
CreateItemAdvance(s, o) ==
  LET nxt == CreateItemNext(o.pc, o.tagIds, o.files)
      o2 == [o EXCEPT !.log = Append(@, <<nxt, {}>>)]
  IN IF nxt = "refresh"
     THEN /\ isRefreshing' = TRUE
          /\ page' = 1
          /\ ops' = [ops EXCEPT ![s] = [o2 EXCEPT !.pc = "getItems", !.refresh = TRUE,
                                                   !.page = page, !.filt = filters]]
          /\ UNCHANGED <<items, currentItem, filters, isLoading, error, hasMore, total>>
     ELSE /\ ops' = [ops EXCEPT ![s] = [o2 EXCEPT !.pc = nxt,
                                                   !.pend = IF nxt = "upload" THEN o.files ELSE {}]]
          /\ UNCHANGED itemsVars

CreateItem(cat, tagIds, files) ==
  /\ Allowed("createItem")
  /\ CanSubmit
  /\ nextId <= MaxItems
  /\ isLoading' = TRUE
  /\ error' = None
  /\ ops' = [ops EXCEPT ![NewSlot] =
               [Idle EXCEPT !.kind = "createItem", !.pc = "insert", !.cat = cat,
                            !.tagIds = tagIds, !.files = files,
                            !.log = <<<<"insert", {}>>>>]]
  /\ ev' = "-"
  /\ UNCHANGED <<dbVars, items, currentItem, filters, isRefreshing, page, hasMore, total, focus, shown, notItems>>

\* itemsApi.createItem resolves
CreateItemInsert(s, ok) ==
  LET o == ops[s] IN
  /\ o.kind = "createItem"
  /\ o.pc = "insert"
  /\ nextId <= MaxItems
  /\ IF ok
     THEN /\ dbItems' = [dbItems EXCEPT ![nextId] = [exists |-> TRUE, category_id |-> o.cat]]
          /\ nextId' = nextId + 1
          /\ CreateItemAdvance(s, [o EXCEPT !.item = nextId])
     ELSE /\ Catch(s, o, "Failed to create item", "null")
          /\ UNCHANGED <<dbItems, nextId>>
  /\ ev' = "-"
  /\ UNCHANGED <<dbItemTags, dbAtt, blobs, dbCats, dbTags, dbReminders, focus, shown, notItems>>

\* tagsApi.addTagsToItem resolves
CreateItemTags(s, ok) ==
  LET o == ops[s] IN
  /\ o.kind = "createItem"
  /\ o.pc = "addTags"
  /\ IF ok
     THEN /\ dbItemTags' = dbItemTags \cup {<<o.item, t>> : t \in o.tagIds}
          /\ CreateItemAdvance(s, o)
     ELSE /\ Catch(s, o, "Failed to create item", "null")
          /\ UNCHANGED dbItemTags
  /\ ev' = "-"
  /\ UNCHANGED <<dbItems, dbAtt, blobs, dbCats, dbTags, nextId, dbReminders, focus, shown, notItems>>

\* one uploadFile of the Promise.all fan-out settles (storage.api.ts:11-78): a
\* rejection rejects uploadFiles at once, the other uploads run on unobserved
CreateItemUpload(s, f, ok) ==
  LET o == ops[s]
      o2 == [o EXCEPT !.pend = @ \ {f}, !.up = IF ok THEN @ \cup {f} ELSE @]
  IN /\ o.kind = "createItem"
     /\ f \in o.pend
     /\ blobs' = IF ok THEN blobs \cup {<<o.item, f>>} ELSE blobs
     /\ IF o.pc = "upload"
        THEN IF ~ok
             THEN Catch(s, o2, "Failed to create item", "null")
             ELSE IF o2.pend = {}
                  THEN CreateItemAdvance(s, o2)
                  ELSE /\ ops' = [ops EXCEPT ![s] = o2]
                       /\ UNCHANGED itemsVars
        ELSE /\ ops' = [ops EXCEPT ![s] = o2]
             /\ UNCHANGED itemsVars
     /\ ev' = "-"
     /\ UNCHANGED <<dbItems, dbItemTags, dbAtt, dbCats, dbTags, nextId, dbReminders, focus, shown, notItems>>

\* attachmentsApi.createAttachments resolves: one row per uploaded file
CreateItemAttach(s, ok) ==
  LET o == ops[s] IN
  /\ o.kind = "createItem"
  /\ o.pc = "attach"
  /\ IF ok
     THEN /\ dbAtt' = dbAtt \cup {<<o.item, f>> : f \in o.up}
          /\ CreateItemAdvance(s, o)
     ELSE /\ Catch(s, o, "Failed to create item", "null")
          /\ UNCHANGED dbAtt
  /\ ev' = "-"
  /\ UNCHANGED <<dbItems, dbItemTags, blobs, dbCats, dbTags, nextId, dbReminders, focus, shown, notItems>>

\* the inner fetchItems settles (it catches its own failure), then lines 182-183
CreateItemDone(s, ok) ==
  /\ ops[s].kind = "createItem"
  /\ ops[s].pc = "getItems"
  /\ FetchItemsResume(s, ok)
  /\ ops' = [ops EXCEPT ![s] = [Touch(ops[s], items', currentItem)
                                  EXCEPT !.pc = "done", !.result = "item",
                                         !.failedCall = @ \/ ~ok]]
  /\ ev' = "-"
  /\ UNCHANGED <<dbVars, focus, shown, notItems>>

(* ---- updateItem (items.store.ts:195-226) ---- *)
\* { ...item, ...updatedItem }: the row's columns replace the held ones
MergeRow(held, id, cat) == IF held.id = id /\ id # 0 THEN [held EXCEPT !.category_id = cat] ELSE held

UpdateItem(i, cat, hasTags, tagIds) ==
  /\ Allowed("updateItem")
  /\ CanSubmit
  /\ i = shown
  /\ hasTags \/ tagIds = {}
  /\ isLoading' = TRUE
  /\ error' = None
  /\ ops' = [ops EXCEPT ![NewSlot] =
               [Idle EXCEPT !.kind = "updateItem", !.pc = "updateRow", !.item = i, !.cat = cat,
                            !.hasTags = hasTags, !.tagIds = tagIds,
                            !.log = <<<<"updateRow", {}>>>>]]
  /\ ev' = "-"
  /\ UNCHANGED <<dbVars, items, currentItem, filters, isRefreshing, page, hasMore, total, focus, shown, notItems>>

\* lines 207-217: the local substitution
UpdateItemLocal(s, o) ==
  LET newItems == [k \in 1..Len(items) |-> MergeRow(items[k], o.item, o.cat)]
      newCurrent == MergeRow(currentItem, o.item, o.cat)
  IN /\ items' = newItems
     /\ currentItem' = newCurrent
     /\ isLoading' = FALSE
     /\ ops' = [ops EXCEPT ![s] = [Touch(o, newItems, newCurrent)
                                     EXCEPT !.pc = "done", !.result = "item"]]
     /\ UNCHANGED <<filters, isRefreshing, error, page, hasMore, total>>

\* itemsApi.updateItem resolves (.single(): no row is an error)
UpdateItemRow(s, ok) ==
  LET o == ops[s] IN
  /\ o.kind = "updateItem"
  /\ o.pc = "updateRow"
  /\ IF ok /\ dbItems[o.item].exists
     THEN /\ dbItems' = [dbItems EXCEPT ![o.item].category_id = o.cat]
          /\ IF o.hasTags
             THEN /\ ops' = [ops EXCEPT ![s] =
                               [o EXCEPT !.pc = "setTagsDelete",
                                         !.log = Append(@, <<"setTagsDelete", {}>>)]]
                  /\ UNCHANGED itemsVars
             ELSE UpdateItemLocal(s, o)
     ELSE /\ Catch(s, o, "Failed to update item", "null")
          /\ UNCHANGED dbItems
  /\ ev' = "-"
  /\ UNCHANGED <<dbItemTags, dbAtt, blobs, dbCats, dbTags, nextId, dbReminders, focus, shown, notItems>>

\* setItemTags, first call: delete the item's join rows; its error is not read
UpdateItemTagsDelete(s, ok) ==
  LET o == ops[s]
      o2 == [o EXCEPT !.failedCall = @ \/ ~ok]
  IN /\ o.kind = "updateItem"
     /\ o.pc = "setTagsDelete"
     /\ dbItemTags' = IF ok THEN {r \in dbItemTags : r[1] # o.item} ELSE dbItemTags
     /\ IF o.tagIds # {}
        THEN /\ ops' = [ops EXCEPT ![s] =
                          [o2 EXCEPT !.pc = "setTagsInsert",
                                     !.log = Append(@, <<"setTagsInsert", {}>>)]]
             /\ UNCHANGED itemsVars
        ELSE UpdateItemLocal(s, o2)
     /\ ev' = "-"
     /\ UNCHANGED <<dbItems, dbAtt, blobs, dbCats, dbTags, nextId, dbReminders, focus, shown, notItems>>

\* setItemTags, second call: insert the new join rows
UpdateItemTagsInsert(s, ok) ==
  LET o == ops[s] IN
  /\ o.kind = "updateItem"
  /\ o.pc = "setTagsInsert"
  /\ IF ok
     THEN /\ dbItemTags' = dbItemTags \cup {<<o.item, t>> : t \in o.tagIds}
          /\ UpdateItemLocal(s, o)
     ELSE /\ Catch(s, o, "Failed to update item", "null")
          /\ UNCHANGED dbItemTags
  /\ ev' = "-"
  /\ UNCHANGED <<dbItems, dbAtt, blobs, dbCats, dbTags, nextId, dbReminders, focus, shown, notItems>>

(* ---- deleteItem (items.store.ts:229-262) ---- *)
\* a deleteFiles that removes the blobs one call per path
DeleteFilesOneByOne(paths) == LET q == SetToSeq(paths) IN [k \in 1..Len(q) |-> {q[k]}]

\* storageApi.deleteFiles: the remove calls it makes for `paths` (storage.api.ts:101-116)
DeleteFilesCalls(paths) == IF paths = {} THEN <<>> ELSE <<paths>>

DeleteItem(i) ==
  /\ Allowed("deleteItem")
  /\ CanSubmit
  /\ i = shown
  /\ dbItems[i].exists
  /\ isLoading' = TRUE
  /\ error' = None
  /\ ops' = [ops EXCEPT ![NewSlot] =
               [Idle EXCEPT !.kind = "deleteItem", !.pc = "getAttachments", !.item = i,
                            !.log = <<<<"getAttachments", {}>>>>]]
  /\ ev' = "-"
  /\ UNCHANGED <<dbVars, items, currentItem, filters, isRefreshing, page, hasMore, total, focus, shown, notItems>>

\* attachmentsApi.getAttachmentsByItemId resolves; line 237 skips deleteFiles for none
DeleteItemGetAttachments(s, ok) ==
  LET o == ops[s]
      paths == {a \in dbAtt : a[1] = o.item}
      calls == IF paths = {} THEN <<>> ELSE DeleteFilesCalls(paths)
  IN /\ o.kind = "deleteItem"
     /\ o.pc = "getAttachments"
     /\ IF ok
        THEN /\ ops' = [ops EXCEPT ![s] =
                          IF calls = <<>>
                          THEN [o EXCEPT !.pc = "deleteRow", !.up = paths,
                                         !.log = Append(@, <<"deleteRow", {}>>)]
                          ELSE [o EXCEPT !.pc = "deleteFiles", !.up = paths, !.batches = calls,
                                         !.log = Append(@, <<"remove", Head(calls)>>)]]
             /\ UNCHANGED itemsVars
        ELSE Catch(s, o, "Failed to delete item", "false")
     /\ ev' = "-"
     /\ UNCHANGED <<dbVars, focus, shown, notItems>>

\* one storage remove call resolves
DeleteItemFiles(s, ok) ==
  LET o == ops[s]
      rest == Tail(o.batches)
  IN /\ o.kind = "deleteItem"
     /\ o.pc = "deleteFiles"
     /\ IF ok
        THEN /\ blobs' = blobs \ Head(o.batches)
             /\ ops' = [ops EXCEPT ![s] =
                          IF rest = <<>>
                          THEN [o EXCEPT !.pc = "deleteRow", !.batches = rest,
                                         !.log = Append(@, <<"deleteRow", {}>>)]
                          ELSE [o EXCEPT !.batches = rest,
                                         !.log = Append(@, <<"remove", Head(rest)>>)]]
             /\ UNCHANGED itemsVars
        ELSE /\ Catch(s, o, "Failed to delete item", "false")
             /\ UNCHANGED blobs
     /\ ev' = "-"
     /\ UNCHANGED <<dbItems, dbItemTags, dbAtt, dbCats, dbTags, nextId, dbReminders, focus, shown, notItems>>

\* itemsApi.deleteItem resolves (the row delete cascades to attachments and
\* item_tags), then the local removal of lines 246-251
DeleteItemRow(s, ok) ==
  LET o == ops[s]
      newItems == SelectSeq(items, LAMBDA it : it.id # o.item)
      newCurrent == IF currentItem.id = o.item THEN NoItem ELSE currentItem
  IN /\ o.kind = "deleteItem"
     /\ o.pc = "deleteRow"
     /\ IF ok
        THEN /\ dbItems' = [dbItems EXCEPT ![o.item] = NoRow]
             /\ dbAtt' = {a \in dbAtt : a[1] # o.item}
             /\ dbItemTags' = {r \in dbItemTags : r[1] # o.item}
             /\ dbReminders' = [r \in RemIds |-> IF dbReminders[r].item_id = o.item
                                                  THEN NoReminderRow ELSE dbReminders[r]]
             /\ items' = newItems
             /\ currentItem' = newCurrent
             /\ total' = total - 1
             /\ isLoading' = FALSE
             /\ ops' = [ops EXCEPT ![s] = [Touch(o, newItems, newCurrent)
                                             EXCEPT !.pc = "done", !.result = "true",
                                                    !.log = Append(@, <<"localRemove", {}>>)]]
             /\ UNCHANGED <<filters, isRefreshing, error, page, hasMore>>
        ELSE /\ Catch(s, o, "Failed to delete item", "false")
             /\ UNCHANGED <<dbItems, dbAtt, dbItemTags, dbReminders>>
     /\ ev' = "-"
     /\ UNCHANGED <<blobs, dbCats, dbTags, nextId, focus, shown, notItems>>

(* ---- synchronous actions (items.store.ts:265-330) ---- *)
SetFilters(c) ==
  /\ Allowed("setFilters")
  /\ filters' = [filters EXCEPT !.categoryId = c]
  /\ page' = 1
  /\ hasMore' = TRUE
  /\ ev' = "-"
  /\ UNCHANGED <<dbVars, items, currentItem, isLoading, isRefreshing, error, total, ops, focus, shown, notItems>>

ClearFilters ==
  /\ Allowed("clearFilters")
  /\ filters' = initialFilters
  /\ page' = 1
  /\ hasMore' = TRUE
  /\ ev' = "-"
  /\ UNCHANGED <<dbVars, items, currentItem, isLoading, isRefreshing, error, total, ops, focus, shown, notItems>>

SearchItems ==
  /\ Allowed("searchItems")
  /\ Free # {}
  /\ isLoading' = TRUE
  /\ ops' = [ops EXCEPT ![NewSlot] = [Idle EXCEPT !.kind = "searchItems", !.pc = "search"]]
  /\ ev' = "-"
  /\ UNCHANGED <<dbVars, items, currentItem, filters, isRefreshing, error, page, hasMore, total, focus, shown, notItems>>

SearchItemsDone(s, ok) ==
  /\ ops[s].kind = "searchItems"
  /\ ops[s].pc = "search"
  /\ isLoading' = FALSE
  /\ ops' = [ops EXCEPT ![s] = IF ok THEN Idle
                                ELSE [@ EXCEPT !.pc = "done", !.failedCall = TRUE, !.result = "[]"]]
  /\ ev' = "-"
  /\ UNCHANGED <<dbVars, items, currentItem, filters, isRefreshing, error, page, hasMore, total, focus, shown, notItems>>

ClearCurrentItem ==
  /\ Allowed("clearCurrentItem")
  /\ currentItem' = NoItem
  /\ ev' = "-"
  /\ UNCHANGED <<dbVars, items, filters, isLoading, isRefreshing, error, page, hasMore, total, ops, focus, shown, notItems>>

ClearError ==
  /\ Allowed("clearError")
  /\ error' = None
  /\ ev' = "-"
  /\ UNCHANGED <<dbVars, items, currentItem, filters, isLoading, isRefreshing, page, hasMore, total, ops, focus, shown, notItems>>

ResetItems ==
  /\ Allowed("reset")
  /\ items' = <<>>
  /\ currentItem' = NoItem
  /\ filters' = initialFilters
  /\ isLoading' = FALSE
  /\ isRefreshing' = FALSE
  /\ error' = None
  /\ page' = 1
  /\ hasMore' = TRUE
  /\ total' = 0
  /\ ev' = "-"
  /\ UNCHANGED <<dbVars, ops, focus, shown, notItems>>

(* ---------------------------- names and their order ------------------- *)
\* a.name.localeCompare(b.name) < 0 / the tables' order('name')
NameRank(n) == CASE n = "a" -> 1 [] n = "B" -> 2 [] OTHER -> 3

\* Array.prototype.sort by name (stable): insert x behind every entry not above it
RECURSIVE InsertByName(_, _)
InsertByName(sorted, x) ==
  IF sorted = <<>> THEN <<x>>
  ELSE IF NameRank(sorted[Len(sorted)].name) <= NameRank(x.name)
       THEN Append(sorted, x)
       ELSE Append(InsertByName(SubSeq(sorted, 1, Len(sorted) - 1), x), sorted[Len(sorted)])

\* a sort that leaves the array as it is
KeepArrayOrder(q) == q

RECURSIVE SortByName(_)
SortByName(q) ==
  IF q = <<>> THEN <<>> ELSE InsertByName(SortByName(SubSeq(q, 1, Len(q) - 1)), q[Len(q)])

\* the ids of `order` that have a row in `tbl`, as [id, name] records in table order
RECURSIVE NamedRows(_, _)
NamedRows(order, tbl) ==
  IF order = <<>> THEN <<>>
  ELSE (IF tbl[Head(order)] # None THEN <<[id |-> Head(order), name |-> tbl[Head(order)]]>>
        ELSE <<>>) \o NamedRows(Tail(order), tbl)

HeldIds(coll) == {coll[k].id : k \in 1..Len(coll)}

\* the case folding of ilike (categories.api.ts:151, part_006:804)
Fold(n) == IF n = "B" THEN "b" ELSE n

\* handleSave of the Categories and Tags screens (CategoriesScreen.tsx:71-105,
\* part_005:64-91): the trimmed name must be non-empty; nothing else is tested
\* before the store action is called
HandleSaveSubmits(n) == n # ""

(* ---------------------------- Categories store ------------------------ *)
\* categories.api.ts:141-168 (no screen calls it)
categoryNameExists(name, excludeId) ==
  \E c \in CatIds : dbCats[c] # None /\ Fold(dbCats[c]) = Fold(name) /\ c # excludeId

\* categories.api.ts getCategories: the owner's rows ordered by name
getCategories == SortByName(NamedRows(CatOrder, dbCats))

\* what the actions of the Categories store leave alone
catFrame == <<dbItemTags, dbAtt, blobs, dbTags, nextId, dbReminders, itemsVars, tagVars, remVars,
              nextTag, nextRem, scheduled, authVars, screenVars, focus, shown>>

\* every action of the store opens with set({ isLoading: true, error: null })
CatBegin(o) ==
  /\ Free # {}
  /\ catIsLoading' = TRUE
  /\ catError' = None
  /\ ops' = [ops EXCEPT ![NewSlot] = o]
  /\ ev' = "-"
  /\ UNCHANGED <<dbItems, dbCats, nextCat, categories, currentCategory, catFrame>>

\* the catch block: flags only
CatCatch(s, o, msg, res) ==
  /\ catIsLoading' = FALSE
  /\ catError' = msg
  /\ ops' = [ops EXCEPT ![s] = [o EXCEPT !.pc = "done", !.failedCall = TRUE, !.result = res]]
  /\ UNCHANGED <<categories, currentCategory>>

\* the success set of a mutation: the new collection and current-record slot
CatApply(s, o, newColl, newCurrent, res) ==
  /\ categories' = newColl
  /\ currentCategory' = newCurrent
  /\ catIsLoading' = FALSE
  /\ ops' = [ops EXCEPT ![s] =
               [o EXCEPT !.pc = "done", !.result = res,
                         !.touched = newColl # categories \/ newCurrent # currentCategory]]
  /\ UNCHANGED catError

FetchCategories ==
  /\ Allowed("fetchCategories")
  /\ CatBegin([Idle EXCEPT !.kind = "fetchCategories", !.pc = "get"])

FetchCategoriesDone(s, ok) ==
  /\ ops[s].kind = "fetchCategories"
  /\ categories' = IF ok THEN getCategories ELSE categories
  /\ catIsLoading' = FALSE
  /\ catError' = IF ok THEN catError ELSE "Failed to fetch categories"
  /\ ops' = [ops EXCEPT ![s] = Idle]
  /\ ev' = "-"
  /\ UNCHANGED <<dbItems, dbCats, nextCat, currentCategory, catFrame>>

FetchCategoryById(c) ==
  /\ Allowed("fetchCategoryById")
  /\ CatBegin([Idle EXCEPT !.kind = "fetchCategoryById", !.pc = "get", !.cat = c])

\* getCategoryById: no row (PGRST116) is null, not an error
FetchCategoryByIdDone(s, ok) ==
  LET o == ops[s] IN
  /\ o.kind = "fetchCategoryById"
  /\ currentCategory' = IF ~ok THEN currentCategory
                        ELSE IF dbCats[o.cat] # None THEN [id |-> o.cat, name |-> dbCats[o.cat]]
                        ELSE NoNamed
  /\ catIsLoading' = FALSE
  /\ catError' = IF ok THEN catError ELSE "Failed to fetch category"
  /\ ops' = [ops EXCEPT ![s] = Idle]
  /\ ev' = "-"
  /\ UNCHANGED <<dbItems, dbCats, nextCat, categories, catFrame>>

CreateCategory(n) ==
  /\ Allowed("createCategory")
  /\ CanSubmit
  /\ nextCat <= Len(CatOrder)
  /\ HandleSaveSubmits(n)
  /\ CatBegin([Idle EXCEPT !.kind = "createCategory", !.pc = "insert", !.name = n])

\* categoriesApi.createCategory resolves, then lines 81-86
CreateCategoryDone(s, ok) ==
  LET o == ops[s]
      new == [id |-> CatOrder[nextCat], name |-> o.name]
  IN /\ o.kind = "createCategory"
     /\ o.pc = "insert"
     /\ IF ok
        THEN /\ dbCats' = [dbCats EXCEPT ![new.id] = o.name]
             /\ nextCat' = nextCat + 1
             /\ CatApply(s, [o EXCEPT !.cat = new.id],
                         SortByName(Append(categories, new)), currentCategory, "row")
        ELSE /\ CatCatch(s, o, "Failed to create category", "null")
             /\ UNCHANGED <<dbCats, nextCat>>
     /\ ev' = "-"
     /\ UNCHANGED <<dbItems, catFrame>>

UpdateCategory(c, n) ==
  /\ Allowed("updateCategory")
  /\ CanSubmit
  /\ c \in HeldIds(categories)
  /\ HandleSaveSubmits(n)
  /\ CatBegin([Idle EXCEPT !.kind = "updateCategory", !.pc = "update", !.cat = c, !.name = n])

\* categoriesApi.updateCategory resolves (.single(): no row is an error), then 110-119
UpdateCategoryDone(s, ok) ==
  LET o == ops[s]
      upd == [id |-> o.cat, name |-> o.name]
  IN /\ o.kind = "updateCategory"
     /\ o.pc = "update"
     /\ IF ok /\ dbCats[o.cat] # None
        THEN /\ dbCats' = [dbCats EXCEPT ![o.cat] = o.name]
             /\ CatApply(s, o,
                         SortByName([k \in 1..Len(categories) |->
                                       IF categories[k].id = o.cat THEN upd ELSE categories[k]]),
                         IF currentCategory.id = o.cat THEN upd ELSE currentCategory, "row")
        ELSE /\ CatCatch(s, o, "Failed to update category", "null")
             /\ UNCHANGED dbCats
     /\ ev' = "-"
     /\ UNCHANGED <<dbItems, nextCat, catFrame>>

DeleteCategory(c) ==
  /\ Allowed("deleteCategory")
  /\ CanSubmit
  /\ c \in HeldIds(categories)
  /\ CatBegin([Idle EXCEPT !.kind = "deleteCategory", !.pc = "detach", !.cat = c])

\* categories.api.ts:117-121: the update that nulls category_id on the category's
\* items resolves; its error is not read
DeleteCategoryDetach(s, ok) ==
  LET o == ops[s] IN
  /\ o.kind = "deleteCategory"
  /\ o.pc = "detach"
  /\ dbItems' = IF ok
                THEN [i \in ItemIds |-> IF dbItems[i].category_id = o.cat
                                        THEN [dbItems[i] EXCEPT !.category_id = None]
                                        ELSE dbItems[i]]
                ELSE dbItems
  /\ ops' = [ops EXCEPT ![s] = [o EXCEPT !.pc = "deleteRow", !.failedCall = ~ok]]
  /\ ev' = "-"
  /\ UNCHANGED <<dbCats, nextCat, catVars, catFrame>>

\* categories.api.ts:123-131: the row delete resolves, then the local removal
DeleteCategoryRow(s, ok) ==
  LET o == ops[s] IN
  /\ o.kind = "deleteCategory"
  /\ o.pc = "deleteRow"
  /\ IF ok
     THEN /\ dbCats' = [dbCats EXCEPT ![o.cat] = None]
          /\ CatApply(s, o, SelectSeq(categories, LAMBDA c : c.id # o.cat),
                      IF currentCategory.id = o.cat THEN NoNamed ELSE currentCategory, "true")
     ELSE /\ CatCatch(s, o, "Failed to delete category", "false")
          /\ UNCHANGED dbCats
  /\ ev' = "-"
  /\ UNCHANGED <<dbItems, nextCat, catFrame>>

(* ---------------------------- Tags store ------------------------------ *)
\* part_006:791-821 (no screen calls it)
tagNameExists(name, excludeId) ==
  \E t \in TagIds : dbTags[t] # None /\ Fold(dbTags[t]) = Fold(name) /\ t # excludeId

\* part_006:663 getTags: the owner's rows ordered by name
getTags == SortByName(NamedRows(TagOrder, dbTags))

\* part_006:949 getTagsWithItemCount: each tag with the count of its join rows; a
\* count query's error is not read and counts as 0 (`counted`: the queries that worked)
getTagsWithItemCount(counted) ==
  LET q == getTags IN
  [k \in 1..Len(q) |->
     [id |-> q[k].id, name |-> q[k].name,
      itemCount |-> IF q[k].id \in counted
                    THEN Cardinality({r \in dbItemTags : r[2] = q[k].id}) ELSE 0]]

tagFrame == <<dbItems, dbAtt, blobs, dbCats, nextId, dbReminders, itemsVars, catVars, remVars,
              nextCat, nextRem, scheduled, authVars, screenVars, focus, shown>>

TagBegin(o) ==
  /\ Free # {}
  /\ tagIsLoading' = TRUE
  /\ tagError' = None
  /\ ops' = [ops EXCEPT ![NewSlot] = o]
  /\ ev' = "-"
  /\ UNCHANGED <<dbTags, dbItemTags, nextTag, tags, tagsWithCount, currentTag, selectedTagIds,
                 tagFrame>>

TagCatch(s, o, msg, res) ==
  /\ tagIsLoading' = FALSE
  /\ tagError' = msg
  /\ ops' = [ops EXCEPT ![s] = [o EXCEPT !.pc = "done", !.failedCall = TRUE, !.result = res]]
  /\ UNCHANGED <<tags, tagsWithCount, currentTag, selectedTagIds>>

TagApply(s, o, newTags, newCounted, newCurrent, newSelected, res) ==
  /\ tags' = newTags
  /\ tagsWithCount' = newCounted
  /\ currentTag' = newCurrent
  /\ selectedTagIds' = newSelected
  /\ tagIsLoading' = FALSE
  /\ ops' = [ops EXCEPT ![s] =
               [o EXCEPT !.pc = "done", !.result = res,
                         !.touched = \/ newTags # tags
                                     \/ newCounted # tagsWithCount
                                     \/ newCurrent # currentTag
                                     \/ newSelected # selectedTagIds]]
  /\ UNCHANGED tagError

FetchTags ==
  /\ Allowed("fetchTags")
  /\ TagBegin([Idle EXCEPT !.kind = "fetchTags", !.pc = "get"])

FetchTagsDone(s, ok) ==
  /\ ops[s].kind = "fetchTags"
  /\ tags' = IF ok THEN getTags ELSE tags
  /\ tagIsLoading' = FALSE
  /\ tagError' = IF ok THEN tagError ELSE "Failed to fetch tags"
  /\ ops' = [ops EXCEPT ![s] = Idle]
  /\ ev' = "-"
  /\ UNCHANGED <<dbTags, dbItemTags, nextTag, tagsWithCount, currentTag, selectedTagIds, tagFrame>>

FetchTagsWithCount ==
  /\ Allowed("fetchTagsWithCount")
  /\ TagBegin([Idle EXCEPT !.kind = "fetchTagsWithCount", !.pc = "get"])

FetchTagsWithCountDone(s, ok, counted) ==
  /\ ops[s].kind = "fetchTagsWithCount"
  /\ tagsWithCount' = IF ok THEN getTagsWithItemCount(counted) ELSE tagsWithCount
  /\ tagIsLoading' = FALSE
  /\ tagError' = IF ok THEN tagError ELSE "Failed to fetch tags"
  /\ ops' = [ops EXCEPT ![s] = Idle]
  /\ ev' = "-"
  /\ UNCHANGED <<dbTags, dbItemTags, nextTag, tags, currentTag, selectedTagIds, tagFrame>>

CreateTag(n) ==
  /\ Allowed("createTag")
  /\ CanSubmit
  /\ nextTag <= Len(TagOrder)
  /\ HandleSaveSubmits(n)
  /\ TagBegin([Idle EXCEPT !.kind = "createTag", !.pc = "insert", !.name = n])

\* tagsApi.createTag resolves, then tags.store.ts:114-122
CreateTagDone(s, ok) ==
  LET o == ops[s]
      new == [id |-> TagOrder[nextTag], name |-> o.name]
  IN /\ o.kind = "createTag"
     /\ o.pc = "insert"
     /\ IF ok
        THEN /\ dbTags' = [dbTags EXCEPT ![new.id] = o.name]
             /\ nextTag' = nextTag + 1
             /\ TagApply(s, [o EXCEPT !.tag = new.id],
                         SortByName(Append(tags, new)),
                         SortByName(Append(tagsWithCount,
                                           [id |-> new.id, name |-> new.name, itemCount |-> 0])),
                         currentTag, selectedTagIds, "row")
        ELSE /\ TagCatch(s, o, "Failed to create tag", "null")
             /\ UNCHANGED <<dbTags, nextTag>>
     /\ ev' = "-"
     /\ UNCHANGED <<dbItemTags, tagFrame>>

UpdateTag(t, n) ==
  /\ Allowed("updateTag")
  /\ CanSubmit
  /\ t \in HeldIds(tags)
  /\ HandleSaveSubmits(n)
  /\ TagBegin([Idle EXCEPT !.kind = "updateTag", !.pc = "update", !.tag = t, !.name = n])

\* tagsApi.updateTag resolves (.single(): no row is an error), then tags.store.ts:142-155
UpdateTagDone(s, ok) ==
  LET o == ops[s]
      upd == [id |-> o.tag, name |-> o.name]
  IN /\ o.kind = "updateTag"
     /\ o.pc = "update"
     /\ IF ok /\ dbTags[o.tag] # None
        THEN /\ dbTags' = [dbTags EXCEPT ![o.tag] = o.name]
             /\ TagApply(s, o,
                         SortByName([k \in 1..Len(tags) |->
                                       IF tags[k].id = o.tag THEN upd ELSE tags[k]]),
                         SortByName([k \in 1..Len(tagsWithCount) |->
                                       IF tagsWithCount[k].id = o.tag
                                       THEN [id |-> o.tag, name |-> o.name,
                                             itemCount |-> tagsWithCount[k].itemCount]
                                       ELSE tagsWithCount[k]]),
                         IF currentTag.id = o.tag THEN upd ELSE currentTag,
                         selectedTagIds, "row")
        ELSE /\ TagCatch(s, o, "Failed to update tag", "null")
             /\ UNCHANGED dbTags
     /\ ev' = "-"
     /\ UNCHANGED <<dbItemTags, nextTag, tagFrame>>

DeleteTag(t) ==
  /\ Allowed("deleteTag")
  /\ CanSubmit
  /\ t \in HeldIds(tags)
  /\ TagBegin([Idle EXCEPT !.kind = "deleteTag", !.pc = "deleteJoins", !.tag = t])

\* part_006:766-770: the delete of the tag's item_tags rows resolves; its error is
\* not read
DeleteTagJoins(s, ok) ==
  LET o == ops[s] IN
  /\ o.kind = "deleteTag"
  /\ o.pc = "deleteJoins"
  /\ dbItemTags' = IF ok THEN {r \in dbItemTags : r[2] # o.tag} ELSE dbItemTags
  /\ ops' = [ops EXCEPT ![s] = [o EXCEPT !.pc = "deleteRow", !.failedCall = ~ok]]
  /\ ev' = "-"
  /\ UNCHANGED <<dbTags, nextTag, tagVars, tagFrame>>

\* part_006:772-780: the tag row delete resolves, then tags.store.ts:174-180
DeleteTagRow(s, ok) ==
  LET o == ops[s] IN
  /\ o.kind = "deleteTag"
  /\ o.pc = "deleteRow"
  /\ IF ok
     THEN /\ dbTags' = [dbTags EXCEPT ![o.tag] = None]
          /\ TagApply(s, o, SelectSeq(tags, LAMBDA t : t.id # o.tag),
                      SelectSeq(tagsWithCount, LAMBDA t : t.id # o.tag),
                      IF currentTag.id = o.tag THEN NoNamed ELSE currentTag,
                      SelectSeq(selectedTagIds, LAMBDA id : id # o.tag), "true")
     ELSE /\ TagCatch(s, o, "Failed to delete tag", "false")
          /\ UNCHANGED dbTags
  /\ ev' = "-"
  /\ UNCHANGED <<dbItemTags, nextTag, tagFrame>>

\* tags.store.ts:208-217
ToggleTagSelection(t) ==
  /\ Allowed("toggleTagSelection")
  /\ t \in HeldIds(tags)
  /\ selectedTagIds' = IF t \in Range(selectedTagIds)
                       THEN SelectSeq(selectedTagIds, LAMBDA id : id # t)
                       ELSE Append(selectedTagIds, t)
  /\ ev' = "-"
  /\ UNCHANGED <<dbTags, dbItemTags, nextTag, tags, tagsWithCount, currentTag, tagIsLoading,
                 tagError, ops, tagFrame>>

(* ---------------------------- Auth store (part_011) ------------------- *)
authFrame == <<dbVars, itemsVars, catVars, tagVars, remVars, nextCat, nextTag, nextRem, scheduled,
               screenVars, focus, shown>>

NoUser == [id |-> None, email |-> None]
\* the access tokens a callback can carry, and JSON.parse(atob(payload)) of each
\* (part_007:71-80): a payload with an email, one without, one that does not decode
Tokens == {"jwt", "jwtNoEmail", "garbled"}
Decodes(tok) == tok # "garbled"
DecodedProfile(tok) == [id |-> Me, email |-> IF tok = "jwt" THEN "a@x" ELSE ""]
\* the profile getCurrentUser / exchangeCodeForSession build from the provider's user
ProviderProfile == [id |-> Me, email |-> "a@x"]
Sessions == {"s1", "s2"}

\* result.type and the parameters of result.url (part_007:46-61)
BrowserResults ==
  {[type |-> "success", token |-> tok, code |-> c, err |-> e] :
      tok \in Tokens \cup {None}, c \in BOOLEAN, e \in BOOLEAN}
  \cup {[type |-> ty, token |-> None, code |-> FALSE, err |-> FALSE] : ty \in {"cancel", "dismiss", "locked"}}

\* what authApi.signInWithGoogle returns once the browser has closed, or "exchange"
\* when it goes on to exchangeCodeForSession (part_007:46-127)
BrowserOutcome(res) ==
  IF res.type = "success"
  THEN IF res.token # None
       THEN IF Decodes(res.token)
            THEN [user |-> DecodedProfile(res.token), error |-> None, next |-> "persist"]
            ELSE [user |-> NoUser, error |-> "Failed to decode token", next |-> "-"]
       ELSE IF res.code
            THEN [user |-> NoUser, error |-> None, next |-> "exchange"]
            ELSE IF res.err
                 THEN [user |-> NoUser, error |-> "provider error", next |-> "-"]
                 ELSE [user |-> NoUser, error |-> "Failed to complete sign in", next |-> "-"]
  ELSE IF res.type \in {"cancel", "dismiss"}
       THEN [user |-> NoUser, error |-> "Sign in was cancelled", next |-> "-"]
       ELSE [user |-> NoUser, error |-> "Failed to complete sign in", next |-> "-"]

\* part_011:126 as it would read if the store waited for the session to be stored
AuthenticatedWhenPersisted(u) == persist = "ok"
\* part_011:123-129: isAuthenticated: true
AuthenticatedBy(u) == TRUE

\* part_011:114-136: the store's handling of { user, error }
StoreSignIn(s, o, u, e) ==
  /\ auth' = IF e # None THEN [auth EXCEPT !.isLoading = FALSE, !.error = e]
             ELSE IF u # NoUser
                  THEN [auth EXCEPT !.user = u, !.session = None,
                                    !.isAuthenticated = AuthenticatedBy(u),
                                    !.isLoading = FALSE, !.error = None]
                  ELSE [auth EXCEPT !.isLoading = FALSE]
  /\ ops' = [ops EXCEPT ![s] =
               [o EXCEPT !.pc = "done",
                         !.result = IF e = None /\ u # NoUser THEN "success" ELSE "failure",
                         !.err = IF e # None THEN e
                                 ELSE IF u # NoUser THEN None ELSE "Sign in failed"]]

(* ---- initialize (part_011:34-100), called once by App (App.tsx:90-93) ---- *)
Initialize ==
  /\ Allowed("initialize")
  /\ ~mounted
  /\ Free # {}
  /\ mounted' = TRUE
  /\ auth' = [auth EXCEPT !.isLoading = TRUE]
  /\ ops' = [ops EXCEPT ![NewSlot] = [Idle EXCEPT !.kind = "initialize", !.pc = "getSession"]]
  /\ ev' = "-"
  /\ UNCHANGED <<listeners, persist, authFrame>>

\* authApi.getSession returns (it never throws: part_007:155-168); 41-48 and 62-91
InitializeSession(s, out) ==
  LET o == ops[s] IN
  /\ o.kind = "initialize"
  /\ o.pc = "getSession"
  /\ CASE out = "error" ->
            /\ auth' = [auth EXCEPT !.isLoading = FALSE, !.isInitialized = TRUE,
                                    !.error = "Failed to get session"]
            /\ ops' = [ops EXCEPT ![s] = [o EXCEPT !.pc = "done", !.failedCall = TRUE]]
            /\ UNCHANGED listeners
       [] out = "none" ->
            /\ auth' = [auth EXCEPT !.user = NoUser, !.session = None, !.isAuthenticated = FALSE,
                                    !.isLoading = FALSE, !.isInitialized = TRUE, !.error = None]
            /\ ops' = [ops EXCEPT ![s] = [o EXCEPT !.pc = "done"]]
            /\ listeners' = listeners + 1
       [] OTHER ->
            /\ ops' = [ops EXCEPT ![s] = [o EXCEPT !.pc = "getCurrentUser", !.name = out]]
            /\ UNCHANGED <<auth, listeners>>
  /\ ev' = "-"
  /\ UNCHANGED <<persist, mounted, authFrame>>

\* authApi.getCurrentUser returns; 54-61 and 73-91
InitializeUser(s, u) ==
  LET o == ops[s] IN
  /\ o.kind = "initialize"
  /\ o.pc = "getCurrentUser"
  /\ auth' = [auth EXCEPT !.user = u, !.session = o.name, !.isAuthenticated = (u # NoUser),
                          !.isLoading = FALSE, !.isInitialized = TRUE, !.error = None]
  /\ listeners' = listeners + 1
  /\ ops' = [ops EXCEPT ![s] = [o EXCEPT !.pc = "done"]]
  /\ ev' = "-"
  /\ UNCHANGED <<persist, mounted, authFrame>>

(* ---- the listener registered by initialize (part_011:74-91) ---- *)
\* the provider delivers an event to the registered callbacks
OnAuthStateChange(event, sess) ==
  /\ Allowed("onAuthStateChange")
  /\ listeners > 0
  /\ CASE event = "SIGNED_IN" /\ sess # None ->
            /\ Free # {}
            /\ ops' = [ops EXCEPT ![NewSlot] = [Idle EXCEPT !.kind = "onAuthStateChange",
                                                            !.pc = "getCurrentUser", !.name = sess]]
            /\ UNCHANGED auth
       [] event = "SIGNED_OUT" ->
            /\ auth' = [auth EXCEPT !.user = NoUser, !.session = None, !.isAuthenticated = FALSE]
            /\ UNCHANGED ops
       [] event = "TOKEN_REFRESHED" /\ sess # None ->
            /\ auth' = [auth EXCEPT !.session = sess]
            /\ UNCHANGED ops
       [] OTHER -> UNCHANGED <<auth, ops>>
  /\ ev' = IF event = "SIGNED_OUT" THEN event ELSE "-"
  /\ UNCHANGED <<listeners, persist, mounted, authFrame>>

OnSignedInUser(s, u) ==
  LET o == ops[s] IN
  /\ o.kind = "onAuthStateChange"
  /\ o.pc = "getCurrentUser"
  /\ auth' = [auth EXCEPT !.user = u, !.session = o.name, !.isAuthenticated = (u # NoUser)]
  /\ ops' = [ops EXCEPT ![s] = Idle]
  /\ ev' = "-"
  /\ UNCHANGED <<listeners, persist, mounted, authFrame>>

(* ---- signInWithGoogle (part_011:103-143 over part_007:12-132) ---- *)
\* the login screen is mounted once the store is initialized and while it is not
\* authenticated (RootNavigator.tsx:13-23); its button is disabled while a sign-in is
\* in flight (part_004:17-33, 66-69)
SignInWithGoogle ==
  /\ Allowed("signInWithGoogle")
  /\ Free # {}
  /\ auth.isInitialized
  /\ ~auth.isAuthenticated
  /\ \A s \in Slots : ops[s].kind # "signInWithGoogle"
  /\ auth' = [auth EXCEPT !.isLoading = TRUE, !.error = None]
  /\ ops' = [ops EXCEPT ![NewSlot] = [Idle EXCEPT !.kind = "signInWithGoogle", !.pc = "oauth"]]
  /\ ev' = "-"
  /\ UNCHANGED <<listeners, persist, mounted, authFrame>>

\* supabase.auth.signInWithOAuth resolves (part_007:22-38, 127-131)
SignInOAuth(s, out) ==
  LET o == ops[s] IN
  /\ o.kind = "signInWithGoogle"
  /\ o.pc = "oauth"
  /\ CASE out = "url" ->
            /\ ops' = [ops EXCEPT ![s] = [o EXCEPT !.pc = "browser"]]
            /\ UNCHANGED auth
       [] out = "error" -> StoreSignIn(s, o, NoUser, "oauth error")
       [] out = "throw" -> StoreSignIn(s, o, NoUser, "An unexpected error occurred during sign in")
       [] OTHER -> StoreSignIn(s, o, NoUser, "Failed to complete sign in")
  /\ ev' = "-"
  /\ UNCHANGED <<listeners, persist, mounted, authFrame>>

\* WebBrowser.openAuthSessionAsync resolves (part_007:39-125); on the token path
\* setSession is started and not awaited (85-89)
SignInBrowser(s, res) ==
  LET o == ops[s]
      out == BrowserOutcome(res)
  IN /\ o.kind = "signInWithGoogle"
     /\ o.pc = "browser"
     /\ IF out.next = "exchange"
        THEN /\ ops' = [ops EXCEPT ![s] = [o EXCEPT !.pc = "exchange"]]
             /\ UNCHANGED <<auth, persist>>
        ELSE /\ StoreSignIn(s, [o EXCEPT !.name = res.type, !.tag = res.token], out.user, out.error)
             /\ persist' = IF out.next = "persist" THEN "pending" ELSE persist
     /\ ev' = "-"
     /\ UNCHANGED <<listeners, mounted, authFrame>>

\* supabase.auth.exchangeCodeForSession resolves (part_007:98-113, 127)
SignInExchange(s, out) ==
  LET o == ops[s] IN
  /\ o.kind = "signInWithGoogle"
  /\ o.pc = "exchange"
  /\ CASE out = "user" -> StoreSignIn(s, [o EXCEPT !.name = "success"], ProviderProfile, None)
       [] out = "error" -> StoreSignIn(s, [o EXCEPT !.name = "success"], NoUser, "exchange error")
       [] OTHER -> StoreSignIn(s, [o EXCEPT !.name = "success"], NoUser, "Failed to complete sign in")
  /\ ev' = "-"
  /\ UNCHANGED <<listeners, persist, mounted, authFrame>>

\* the background setSession settles; its then / catch only log (part_007:88-89)
PersistDone(ok) ==
  /\ persist = "pending"
  /\ persist' = IF ok THEN "ok" ELSE "failed"
  /\ ev' = "-"
  /\ UNCHANGED <<auth, listeners, mounted, ops, authFrame>>

(* ---- signOut (part_011:146-166), from the profile screen of the signed-in app ---- *)
SignOut ==
  /\ Allowed("signOut")
  /\ Free # {}
  /\ auth.isAuthenticated
  /\ \A s \in Slots : ops[s].kind # "signOut"
  /\ auth' = [auth EXCEPT !.isLoading = TRUE]
  /\ ops' = [ops EXCEPT ![NewSlot] = [Idle EXCEPT !.kind = "signOut", !.pc = "signOut"]]
  /\ ev' = "-"
  /\ UNCHANGED <<listeners, persist, mounted, authFrame>>

\* authApi.signOut returns { error } and never throws (part_007:137-150); the store
\* does not read what it returns
SignOutDone(s, ok) ==
  LET o == ops[s] IN
  /\ o.kind = "signOut"
  /\ o.pc = "signOut"
  /\ auth' = [auth EXCEPT !.user = NoUser, !.session = None, !.isAuthenticated = FALSE,
                          !.isLoading = FALSE, !.error = None]
  /\ ops' = [ops EXCEPT ![s] = [o EXCEPT !.pc = "done", !.failedCall = ~ok, !.result = "void"]]
  /\ ev' = "signOut"
  /\ UNCHANGED <<listeners, persist, mounted, authFrame>>

(* ---- refreshSession (part_011:169-190) ---- *)
RefreshSession ==
  /\ Allowed("refreshSession")
  /\ Free # {}
  /\ auth.isInitialized
  /\ ops' = [ops EXCEPT ![NewSlot] = [Idle EXCEPT !.kind = "refreshSession", !.pc = "refresh"]]
  /\ ev' = "-"
  /\ UNCHANGED <<auth, listeners, persist, mounted, authFrame>>

\* authApi.refreshSession returns { session, error } (part_007:202-215)
RefreshSessionDone(s, out) ==
  LET o == ops[s] IN
  /\ o.kind = "refreshSession"
  /\ o.pc = "refresh"
  /\ auth' = CASE out = "error" ->
                   [auth EXCEPT !.user = NoUser, !.session = None, !.isAuthenticated = FALSE,
                                !.error = "Failed to refresh session"]
               [] out = "none" -> auth
               [] OTHER -> [auth EXCEPT !.session = out]
  /\ ops' = [ops EXCEPT ![s] = Idle]
  /\ ev' = IF out = "error" THEN "refreshFailed" ELSE "-"
  /\ UNCHANGED <<listeners, persist, mounted, authFrame>>

(* ---- setUser (part_011:198-200) ---- *)
\* a setter that writes the user alone
setUserOnly(a, u) == [a EXCEPT !.user = u]

setUser(a, u) == [a EXCEPT !.user = u, !.isAuthenticated = (u # NoUser)]

SetUser(u) ==
  /\ Allowed("setUser")
  /\ auth.isInitialized
  /\ auth' = setUser(auth, u)
  /\ ev' = "setUser"
  /\ UNCHANGED <<listeners, persist, mounted, ops, authFrame>>

(* ---------------------------- date utilities (part_010) --------------- *)
dateFrame == <<dbVars, itemsVars, catVars, tagVars, remVars, nextCat, nextTag, nextRem, scheduled,
               authVars, ops, focus, shown>>

MsPerSecond == 1000
SecondsPerMinute == 60
MinutesPerHour == 60
HoursPerDay == 24
DaysPerWeek == 7
DaysPerMonth == 30
DaysPerYear == 365
SecondsPerDay == SecondsPerMinute * MinutesPerHour * HoursPerDay

Abs(n) == IF n < 0 THEN 0 - n ELSE n
\* Math.floor of a quotient: \div rounds toward minus infinity as Math.floor does
Floor(a, b) == a \div b

NoText == [dir |-> "-", n |-> 0, unit |-> "-"]
JustNow == [dir |-> "now", n |-> 0, unit |-> "-"]
\* `in ${n} ${unit}` or `${n} ${unit} ago`
Phrase(isFuture, n, one, many) ==
  [dir |-> IF isFuture THEN "in" ELSE "ago", n |-> n, unit |-> IF n = 1 THEN one ELSE many]

\* formatRelativeTime (part_010:36-85) of a date diffInMs milliseconds from now
formatRelativeTime(diffInMs) ==
  LET diffInSeconds == Floor(diffInMs, MsPerSecond)
      diffInMinutes == Floor(diffInSeconds, SecondsPerMinute)
      diffInHours == Floor(diffInMinutes, MinutesPerHour)
      diffInDays == Floor(diffInHours, HoursPerDay)
      isFuture == diffInMs > 0
      absSeconds == Abs(diffInSeconds)
      absMinutes == Abs(diffInMinutes)
      absHours == Abs(diffInHours)
      absDays == Abs(diffInDays)
  IN IF absSeconds < SecondsPerMinute THEN JustNow
     ELSE IF absMinutes < MinutesPerHour THEN Phrase(isFuture, absMinutes, "minute", "minutes")
     ELSE IF absHours < HoursPerDay THEN Phrase(isFuture, absHours, "hour", "hours")
     ELSE IF absDays < DaysPerWeek THEN Phrase(isFuture, absDays, "day", "days")
     ELSE IF absDays < DaysPerMonth
          THEN Phrase(isFuture, Floor(absDays, DaysPerWeek), "week", "weeks")
     ELSE IF absDays < DaysPerYear
          THEN Phrase(isFuture, Floor(absDays, DaysPerMonth), "month", "months")
     ELSE Phrase(isFuture, Floor(absDays, DaysPerYear), "year", "years")

\* the whole-second offsets a screen formats: the last MaxPastSeconds seconds and
\* the next MaxFutureDays days to the day
MaxPastSeconds == 3700
MaxFutureDays == 8
Offsets == {0 - d : d \in 0..MaxPastSeconds} \cup {n * SecondsPerDay : n \in 1..MaxFutureDays}

\* a screen renders formatRelativeTime(date) (ReminderCenterScreen, ItemDetailScreen)
\* for the date it was given
FormatRelativeTime ==
  /\ Allowed("formatRelativeTime")
  /\ relative.text = NoText
  /\ relative' = [relative EXCEPT !.text = formatRelativeTime(relative.offset * MsPerSecond)]
  /\ ev' = "-"
  /\ UNCHANGED <<sections, gate, dateFrame>>

\* instants are counted in parts of a day (TicksPerDay to the local calendar day)
TicksPerDay == 2
DayOf(t) == Floor(t, TicksPerDay)
\* part_010:90-93
isOverdue(t, now) == t < now
\* part_010:98-107
isToday(t, now) == DayOf(t) = DayOf(now)
\* part_010:112-122
isTomorrow(t, now) == DayOf(t) = DayOf(now) + 1
\* part_010:127-142: from the start of the day after tomorrow to the end of the 7th day
WeekFrom == 2
isThisWeek(t, now) == DayOf(t) >= DayOf(now) + WeekFrom /\ DayOf(t) <= DayOf(now) + DaysPerWeek

\* a classification by calendar date alone
TitleByDate(t, now) ==
  IF DayOf(t) < DayOf(now) THEN "Overdue"
  ELSE IF isToday(t, now) THEN "Today"
  ELSE IF isTomorrow(t, now) THEN "Tomorrow"
  ELSE IF isThisWeek(t, now) THEN "This Week"
  ELSE "Later"

\* the if / else chain of getSections (ReminderCenterScreen.tsx:105-117)
TitleOf(t, now) ==
  IF isOverdue(t, now) THEN "Overdue"
  ELSE IF isToday(t, now) THEN "Today"
  ELSE IF isTomorrow(t, now) THEN "Tomorrow"
  ELSE IF isThisWeek(t, now) THEN "This Week"
  ELSE "Later"

SectionTitles == <<"Overdue", "Today", "Tomorrow", "This Week", "Later">>
\* getSections (ReminderCenterScreen.tsx:98-138): the non-empty groups in title order;
\* a group holds the positions of its reminders in the list
getSections(list, now) ==
  LET Group(title) == SelectSeq([k \in 1..Len(list) |-> k], LAMBDA k : TitleOf(list[k], now) = title)
      all == [j \in 1..Len(SectionTitles) |-> [title |-> SectionTitles[j], data |-> Group(SectionTitles[j])]]
  IN SelectSeq(all, LAMBDA sec : Len(sec.data) > 0)

\* the notify-at instants of the listed reminders: any time of the days from
\* yesterday to NearDays ahead, of the last day of the week window and the day after
\* it, and the instant FarDays ahead of now; the list is ordered by notify-at, as
\* getReminders returns it
NearDays == 3
FarDays == 40
MaxListed == 2
NowTicks == 0..(TicksPerDay - 1)
ListedDays == ((0 - 1)..NearDays) \cup {DaysPerWeek, DaysPerWeek + 1}
NotifyTicks(now) == {d * TicksPerDay + k : d \in ListedDays, k \in NowTicks}
                    \cup {now + FarDays * TicksPerDay}
Lists(now) ==
  {l \in UNION {[1..n -> NotifyTicks(now)] : n \in 1..MaxListed} :
     \A j, k \in 1..Len(l) : j < k => l[j] <= l[k]}

\* the reminder center renders the sections of the list it holds
GetSections ==
  /\ Allowed("getSections")
  /\ sections.out = <<>>
  /\ sections' = [sections EXCEPT !.out = getSections(sections.list, sections.now)]
  /\ ev' = "-"
  /\ UNCHANGED <<relative, gate, dateFrame>>

NextDates == FormatRelativeTime \/ GetSections

(* ---------------------------- biometric gate (part_009) --------------- *)
\* SecureStore.getItemAsync(BIOMETRIC_ENABLED): the stored string, null when the key
\* was never written, or a rejection
StoredFlags == {"true", "false", "null"}
\* hasHardwareAsync / isEnrolledAsync: the boolean they resolve to, or a rejection
DeviceAnswers == {"true", "false", "throws"}
\* authenticateAsync: success, result.error of a failure, or a rejection
AuthResults == {"success", "user_cancel", "user_fallback", "lockout", "not_available", "throws"}

Passed == [success |-> TRUE, error |-> None]
Refused(msg) == [success |-> FALSE, error |-> msg]
NotChecked == [success |-> FALSE, error |-> "-"]

\* part_009:156-164
isBiometricLockEnabled(stored, readOk) == IF readOk THEN stored = "true" ELSE FALSE

\* part_009:15-23
isBiometricSupported(hardware) == hardware = "true"

\* part_009:28-36
isBiometricEnrolled(enrolled) == enrolled = "true"

\* part_009:85-151
authenticateWithBiometrics(hardware, enrolled, result) ==
  IF ~isBiometricSupported(hardware)
  THEN Refused("Biometric authentication is not supported on this device")
  ELSE IF ~isBiometricEnrolled(enrolled)
  THEN Refused("No biometric authentication methods are enrolled")
  ELSE CASE result = "success" -> Passed
         [] result = "user_cancel" -> Refused("Authentication cancelled")
         [] result = "user_fallback" -> Refused("User chose to use passcode")
         [] result = "lockout" -> Refused("Too many failed attempts. Please try again later.")
         [] result = "throws" -> Refused("An error occurred during authentication")
         [] OTHER -> Refused(result)

\* part_009:184-192
performBiometricCheck(stored, readOk, hardware, enrolled, result) ==
  IF ~isBiometricLockEnabled(stored, readOk)
  THEN Passed
  ELSE authenticateWithBiometrics(hardware, enrolled, result)

PerformBiometricCheck ==
  /\ Allowed("performBiometricCheck")
  /\ gate.out = NotChecked
  /\ gate' = [gate EXCEPT !.out = performBiometricCheck(gate.stored, gate.readOk, gate.hardware,
                                                        gate.enrolled, gate.result)]
  /\ ev' = "-"
  /\ UNCHANGED <<relative, sections, dateFrame>>

NextBiometrics == PerformBiometricCheck

(* ---------------------------- gateway: tags.api, called with any ids --- *)
\* the tag rows a select embeds for a join row (null when the tag row is gone)
EmbeddedTag(t) == IF t \in TagIds THEN dbTags[t] # None ELSE TRUE

ApiBegin(o) ==
  /\ Free = Slots
  /\ ops' = [ops EXCEPT ![NewSlot] = o]
  /\ ev' = "-"
  /\ UNCHANGED <<dbTags, dbItemTags, nextTag, tagVars, tagFrame>>

ApiEnd(s, o, ok) ==
  /\ ops' = [ops EXCEPT ![s] = [o EXCEPT !.pc = "done", !.failedCall = @ \/ ~ok,
                                         !.result = IF ok THEN "resolved" ELSE "threw"]]
  /\ ev' = "-"

\* deleteTag(tagId, userId) (part_006:764-786)
ApiDeleteTag(t, u) ==
  /\ Allowed("tagsApi.deleteTag")
  /\ ApiBegin([Idle EXCEPT !.kind = "tagsApi.deleteTag", !.pc = "deleteJoins", !.tag = t, !.name = u])

\* 767-770: .eq('tag_id', tagId) alone; the error is not read
ApiDeleteTagJoins(s, ok) ==
  LET o == ops[s] IN
  /\ o.kind = "tagsApi.deleteTag"
  /\ o.pc = "deleteJoins"
  /\ dbItemTags' = IF ok THEN {r \in dbItemTags : r[2] # o.tag} ELSE dbItemTags
  /\ ops' = [ops EXCEPT ![s] = [o EXCEPT !.pc = "deleteRow", !.failedCall = ~ok]]
  /\ ev' = "-"
  /\ UNCHANGED <<dbTags, nextTag, tagVars, tagFrame>>

\* 773-781: .eq('id', tagId).eq('user_id', userId); no matching row is not an error
ApiDeleteTagRow(s, ok) ==
  LET o == ops[s] IN
  /\ o.kind = "tagsApi.deleteTag"
  /\ o.pc = "deleteRow"
  /\ dbTags' = IF ok /\ o.tag \in TagIds /\ OwnerOfTag(o.tag) = o.name
               THEN [dbTags EXCEPT ![o.tag] = None] ELSE dbTags
  /\ ApiEnd(s, o, ok)
  /\ UNCHANGED <<dbItemTags, nextTag, tagVars, tagFrame>>

\* removeTagsFromItem(itemId, tagIds) (part_006:870-888)
ApiRemoveTagsFromItem(i, T) ==
  /\ Allowed("tagsApi.removeTagsFromItem")
  /\ ApiBegin([Idle EXCEPT !.kind = "tagsApi.removeTagsFromItem", !.pc = "delete", !.item = i,
                           !.tagIds = T])

ApiRemoveTagsFromItemDone(s, ok) ==
  LET o == ops[s] IN
  /\ o.kind = "tagsApi.removeTagsFromItem"
  /\ o.pc = "delete"
  /\ dbItemTags' = IF ok THEN {r \in dbItemTags : ~(r[1] = o.item /\ r[2] \in o.tagIds)}
                   ELSE dbItemTags
  /\ ApiEnd(s, o, ok)
  /\ UNCHANGED <<dbTags, nextTag, tagVars, tagFrame>>

\* getTagsForItem(itemId) (part_006:928-944)
ApiGetTagsForItem(i) ==
  /\ Allowed("tagsApi.getTagsForItem")
  /\ ApiBegin([Idle EXCEPT !.kind = "tagsApi.getTagsForItem", !.pc = "select", !.item = i])

ApiGetTagsForItemDone(s, ok) ==
  LET o == ops[s] IN
  /\ o.kind = "tagsApi.getTagsForItem"
  /\ o.pc = "select"
  /\ ops' = [ops EXCEPT ![s] =
               [o EXCEPT !.pc = "done", !.failedCall = ~ok,
                         !.result = IF ok THEN "resolved" ELSE "threw",
                         !.read = IF ok THEN {r[2] : r \in {q \in dbItemTags :
                                                             q[1] = o.item /\ EmbeddedTag(q[2])}}
                                  ELSE {}]]
  /\ ev' = "-"
  /\ UNCHANGED <<dbTags, dbItemTags, nextTag, tagVars, tagFrame>>

(* ---------------------------- Reminders store ------------------------- *)
\* the device clock and the bounds of its day, on the scale of Times
Now == 1
DayStart == 0
DayEnd == 1

ReminderOf(r) == [id |-> r, item_id |-> dbReminders[r].item_id,
                  notify_at |-> dbReminders[r].notify_at, is_sent |-> dbReminders[r].is_sent]

\* the rows of S ordered by notify_at (ascending or descending)
RECURSIVE ByNotifyAt(_, _)
ByNotifyAt(S, asc) ==
  IF S = {} THEN <<>>
  ELSE LET m == CHOOSE r \in S : \A q \in S :
                  \/ (IF asc THEN dbReminders[r].notify_at < dbReminders[q].notify_at
                             ELSE dbReminders[r].notify_at > dbReminders[q].notify_at)
                  \/ (dbReminders[r].notify_at = dbReminders[q].notify_at /\ r <= q)
       IN <<ReminderOf(m)>> \o ByNotifyAt(S \ {m}, asc)

ExistingRems == {r \in RemIds : dbReminders[r].exists}
UpcomingRows == {r \in ExistingRems : dbReminders[r].notify_at >= Now}
OverdueRows == {r \in ExistingRems : dbReminders[r].notify_at < Now /\ ~dbReminders[r].is_sent}
TodayRows == {r \in ExistingRems : dbReminders[r].notify_at >= DayStart
                                    /\ dbReminders[r].notify_at <= DayEnd}

\* part_006:319 getReminders, :500 getUpcomingReminders, :535 getOverdueReminders,
\* :627 getTodayReminders
getReminders == ByNotifyAt(ExistingRems, TRUE)
getUpcomingReminders == ByNotifyAt(UpcomingRows, TRUE)
getOverdueReminders == ByNotifyAt(OverdueRows, FALSE)
getTodayReminders == ByNotifyAt(TodayRows, TRUE)

\* part_006:587 getRemindersCount: three count queries whose errors are not read;
\* a failed one counts as 0
getRemindersCount(okTotal, okUpcoming, okOverdue) ==
  [total |-> IF okTotal THEN Cardinality(ExistingRems) ELSE 0,
   upcoming |-> IF okUpcoming THEN Cardinality(UpcomingRows) ELSE 0,
   overdue |-> IF okOverdue THEN Cardinality(OverdueRows) ELSE 0]

\* notifications.ts:42-84: nothing is scheduled without the permission or for a
\* date that is not in the future
scheduleReminderNotification(r, at, granted) ==
  IF granted /\ at > Now THEN scheduled \cup {<<r, at>>} ELSE scheduled

remFrame == <<dbItems, dbItemTags, dbAtt, blobs, dbCats, dbTags, nextId, itemsVars, catVars, tagVars,
              nextCat, nextTag, authVars, screenVars, focus, shown>>
remColls == <<reminders, upcomingReminders, overdueReminders, todayReminders, currentReminder, counts>>

RemBegin(o) ==
  /\ Free # {}
  /\ remIsLoading' = TRUE
  /\ remError' = None
  /\ ops' = [ops EXCEPT ![NewSlot] = o]
  /\ ev' = "-"
  /\ UNCHANGED <<dbReminders, nextRem, scheduled, remColls, remFrame>>

RemCatch(s, o, msg, res) ==
  /\ remIsLoading' = FALSE
  /\ remError' = msg
  /\ ops' = [ops EXCEPT ![s] = [o EXCEPT !.pc = "done", !.failedCall = TRUE, !.result = res]]
  /\ UNCHANGED remColls

FetchReminders ==
  /\ Allowed("fetchReminders")
  /\ RemBegin([Idle EXCEPT !.kind = "fetchReminders", !.pc = "get"])

FetchRemindersDone(s, ok) ==
  /\ ops[s].kind = "fetchReminders"
  /\ reminders' = IF ok THEN getReminders ELSE reminders
  /\ remIsLoading' = FALSE
  /\ remError' = IF ok THEN remError ELSE "Failed to fetch reminders"
  /\ ops' = [ops EXCEPT ![s] = Idle]
  /\ ev' = "-"
  /\ UNCHANGED <<dbReminders, nextRem, scheduled, upcomingReminders, overdueReminders,
                 todayReminders, currentReminder, counts, remFrame>>

\* fetchUpcomingReminders / fetchOverdueReminders / fetchTodayReminders: no flags
BucketCall(b) ==
  CASE b = "upcoming" -> "fetchUpcomingReminders"
    [] b = "overdue" -> "fetchOverdueReminders"
    [] OTHER -> "fetchTodayReminders"

FetchBucket(b) ==
  /\ Allowed(BucketCall(b))
  /\ Free # {}
  /\ ops' = [ops EXCEPT ![NewSlot] = [Idle EXCEPT !.kind = "fetchBucket", !.pc = b]]
  /\ ev' = "-"
  /\ UNCHANGED <<dbReminders, nextRem, scheduled, remVars, remFrame>>

FetchBucketDone(s, ok) ==
  LET o == ops[s] IN
  /\ o.kind = "fetchBucket"
  /\ o.pc \in {"upcoming", "overdue", "today"}
  /\ upcomingReminders' = IF ok /\ o.pc = "upcoming" THEN getUpcomingReminders ELSE upcomingReminders
  /\ overdueReminders' = IF ok /\ o.pc = "overdue" THEN getOverdueReminders ELSE overdueReminders
  /\ todayReminders' = IF ok /\ o.pc = "today" THEN getTodayReminders ELSE todayReminders
  /\ ops' = [ops EXCEPT ![s] = IF ok THEN Idle
                                ELSE [@ EXCEPT !.pc = "done", !.failedCall = TRUE, !.result = "void"]]
  /\ ev' = "-"
  /\ UNCHANGED <<dbReminders, nextRem, scheduled, reminders, currentReminder, counts,
                 remIsLoading, remError, remFrame>>

FetchReminderById(r) ==
  /\ Allowed("fetchReminderById")
  /\ RemBegin([Idle EXCEPT !.kind = "fetchReminderById", !.pc = "get", !.rem = r])

FetchReminderByIdDone(s, ok) ==
  LET o == ops[s] IN
  /\ o.kind = "fetchReminderById"
  /\ currentReminder' = IF ~ok THEN currentReminder
                        ELSE IF dbReminders[o.rem].exists THEN ReminderOf(o.rem) ELSE NoReminder
  /\ remIsLoading' = FALSE
  /\ remError' = IF ok THEN remError ELSE "Failed to fetch reminder"
  /\ ops' = [ops EXCEPT ![s] = Idle]
  /\ ev' = "-"
  /\ UNCHANGED <<dbReminders, nextRem, scheduled, reminders, upcomingReminders, overdueReminders,
                 todayReminders, counts, remFrame>>

HeldRems == HeldIds(reminders) \cup HeldIds(upcomingReminders) \cup HeldIds(overdueReminders)
              \cup HeldIds(todayReminders)

(* ---- createReminder (reminders.store.ts:141-167) ---- *)
CreateReminder(at) ==
  /\ Allowed("createReminder")
  /\ CanSubmit
  /\ nextRem <= MaxRems
  /\ RemBegin([Idle EXCEPT !.kind = "createReminder", !.pc = "insert", !.item = shown, !.at = at])

\* remindersApi.createReminder resolves
CreateReminderInsert(s, ok) ==
  LET o == ops[s] IN
  /\ o.kind = "createReminder"
  /\ o.pc = "insert"
  /\ IF ok
     THEN /\ dbReminders' = [dbReminders EXCEPT ![nextRem] =
                               [exists |-> TRUE, item_id |-> o.item, notify_at |-> o.at,
                                is_sent |-> FALSE]]
          /\ nextRem' = nextRem + 1
          /\ ops' = [ops EXCEPT ![s] = [o EXCEPT !.pc = "schedule", !.rem = nextRem]]
          /\ UNCHANGED remVars
     ELSE /\ RemCatch(s, o, "Failed to create reminder", "null")
          /\ UNCHANGED <<dbReminders, nextRem>>
  /\ ev' = "-"
  /\ UNCHANGED <<scheduled, remFrame>>

\* scheduleReminderNotification settles (it never throws), then fetchReminders up
\* to its await (lines 60-62)
CreateReminderSchedule(s, granted) ==
  LET o == ops[s] IN
  /\ o.kind = "createReminder"
  /\ o.pc = "schedule"
  /\ scheduled' = scheduleReminderNotification(o.rem, o.at, granted)
  /\ remIsLoading' = TRUE
  /\ remError' = None
  /\ ops' = [ops EXCEPT ![s] = [o EXCEPT !.pc = "getReminders"]]
  /\ ev' = "-"
  /\ UNCHANGED <<dbReminders, nextRem, remColls, remFrame>>

\* the inner fetchReminders settles (it catches its own failure), then
\* fetchReminderCounts up to its await
CreateReminderList(s, ok) ==
  LET o == ops[s]
      newColl == IF ok THEN getReminders ELSE reminders
  IN /\ o.kind = "createReminder"
     /\ o.pc = "getReminders"
     /\ reminders' = newColl
     /\ remIsLoading' = FALSE
     /\ remError' = IF ok THEN remError ELSE "Failed to fetch reminders"
     /\ ops' = [ops EXCEPT ![s] = [o EXCEPT !.pc = "getCounts", !.failedCall = ~ok,
                                            !.touched = newColl # reminders]]
     /\ ev' = "-"
     /\ UNCHANGED <<dbReminders, nextRem, scheduled, upcomingReminders, overdueReminders,
                    todayReminders, currentReminder, counts, remFrame>>

\* the inner fetchReminderCounts settles (it catches its own failure), then 157-158
CreateReminderCounts(s, ok, okTotal, okUpcoming, okOverdue) ==
  LET o == ops[s] IN
  /\ o.kind = "createReminder"
  /\ o.pc = "getCounts"
  /\ ok \/ (okTotal /\ okUpcoming /\ okOverdue)
  /\ counts' = IF ok THEN getRemindersCount(okTotal, okUpcoming, okOverdue) ELSE counts
  /\ remIsLoading' = FALSE
  /\ ops' = [ops EXCEPT ![s] =
               [o EXCEPT !.pc = "done", !.result = "row",
                         !.failedCall = @ \/ ~(ok /\ okTotal /\ okUpcoming /\ okOverdue)]]
  /\ ev' = "-"
  /\ UNCHANGED <<dbReminders, nextRem, scheduled, reminders, upcomingReminders, overdueReminders,
                 todayReminders, currentReminder, remError, remFrame>>

(* ---- fetchReminderCounts (reminders.store.ts:130-137) ---- *)
\* no flags; the catch only logs
FetchReminderCounts ==
  /\ Allowed("fetchReminderCounts")
  /\ Free # {}
  /\ ops' = [ops EXCEPT ![NewSlot] = [Idle EXCEPT !.kind = "fetchReminderCounts", !.pc = "getCounts"]]
  /\ ev' = "-"
  /\ UNCHANGED <<dbReminders, nextRem, scheduled, remVars, remFrame>>

FetchReminderCountsDone(s, ok, okTotal, okUpcoming, okOverdue) ==
  LET o == ops[s] IN
  /\ o.kind = "fetchReminderCounts"
  /\ o.pc = "getCounts"
  /\ ok \/ (okTotal /\ okUpcoming /\ okOverdue)
  /\ counts' = IF ok THEN getRemindersCount(okTotal, okUpcoming, okOverdue) ELSE counts
  /\ ops' = [ops EXCEPT ![s] =
               IF ok /\ okTotal /\ okUpcoming /\ okOverdue THEN Idle
               ELSE [o EXCEPT !.pc = "done", !.failedCall = TRUE, !.result = "void"]]
  /\ ev' = "-"
  /\ UNCHANGED <<dbReminders, nextRem, scheduled, reminders, upcomingReminders, overdueReminders,
                 todayReminders, currentReminder, remIsLoading, remError, remFrame>>

(* ---- markAsSent (reminders.store.ts:251-264) ---- *)
\* the screen passes a reminder of the list it shows (ReminderCenterScreen.tsx:60-64)
MarkAsSent(r) ==
  /\ Allowed("markAsSent")
  /\ Free # {}
  /\ r \in HeldRems
  /\ ops' = [ops EXCEPT ![NewSlot] = [Idle EXCEPT !.kind = "markAsSent", !.pc = "mark", !.rem = r]]
  /\ ev' = "-"
  /\ UNCHANGED <<dbReminders, nextRem, scheduled, remVars, remFrame>>

\* remindersApi.markReminderAsSent resolves, then the local update; the catch only logs
MarkAsSentDone(s, ok) ==
  LET o == ops[s]
      Sent(x) == IF x.id = o.rem THEN [x EXCEPT !.is_sent = TRUE] ELSE x
      Keep(x) == x.id # o.rem
  IN /\ o.kind = "markAsSent"
     /\ o.pc = "mark"
     /\ dbReminders' = IF ok /\ dbReminders[o.rem].exists
                       THEN [dbReminders EXCEPT ![o.rem].is_sent = TRUE] ELSE dbReminders
     /\ reminders' = IF ok THEN [k \in 1..Len(reminders) |-> Sent(reminders[k])] ELSE reminders
     /\ overdueReminders' = IF ok THEN SelectSeq(overdueReminders, Keep) ELSE overdueReminders
     /\ ops' = [ops EXCEPT ![s] =
                  IF ok THEN Idle
                  ELSE [o EXCEPT !.pc = "done", !.failedCall = TRUE, !.result = "void"]]
     /\ ev' = "-"
     /\ UNCHANGED <<nextRem, scheduled, upcomingReminders, todayReminders, currentReminder, counts,
                    remIsLoading, remError, remFrame>>

(* ---- updateReminder (reminders.store.ts:170-215) ---- *)
\* { ...r, ...updatedReminder }: the row's columns replace the held ones
MergeReminder(held, upd) == IF held.id = upd.id /\ upd.id # 0 THEN upd ELSE held

\* lines 189-204: the local substitution (todayReminders is not among them)
UpdateReminderLocal(s, o, upd) ==
  LET newAll == [k \in 1..Len(reminders) |-> MergeReminder(reminders[k], upd)]
      newUp == [k \in 1..Len(upcomingReminders) |-> MergeReminder(upcomingReminders[k], upd)]
      newOver == [k \in 1..Len(overdueReminders) |-> MergeReminder(overdueReminders[k], upd)]
      newCurrent == MergeReminder(currentReminder, upd)
  IN /\ reminders' = newAll
     /\ upcomingReminders' = newUp
     /\ overdueReminders' = newOver
     /\ currentReminder' = newCurrent
     /\ remIsLoading' = FALSE
     /\ ops' = [ops EXCEPT ![s] =
                  [o EXCEPT !.pc = "done", !.result = "row",
                            !.touched = \/ newAll # reminders
                                        \/ newUp # upcomingReminders
                                        \/ newOver # overdueReminders
                                        \/ newCurrent # currentReminder]]
     /\ UNCHANGED <<todayReminders, counts, remError>>

UpdateReminder(r, at, withTitle) ==
  /\ Allowed("updateReminder")
  /\ CanSubmit
  /\ r \in HeldRems
  /\ RemBegin([Idle EXCEPT !.kind = "updateReminder", !.pc = "update", !.rem = r, !.at = at,
                           !.hasTags = withTitle])

\* remindersApi.updateReminder resolves (.single(): no row is an error); line 181
\* reschedules when a date and an item title were passed
UpdateReminderRow(s, ok) ==
  LET o == ops[s]
      upd == [ReminderOf(o.rem) EXCEPT !.notify_at = o.at]
  IN /\ o.kind = "updateReminder"
     /\ o.pc = "update"
     /\ IF ok /\ dbReminders[o.rem].exists
        THEN /\ dbReminders' = [dbReminders EXCEPT ![o.rem].notify_at = o.at]
             /\ IF o.hasTags
                THEN /\ ops' = [ops EXCEPT ![s] = [o EXCEPT !.pc = "schedule"]]
                     /\ UNCHANGED remVars
                ELSE UpdateReminderLocal(s, o, upd)
        ELSE /\ RemCatch(s, o, "Failed to update reminder", "null")
             /\ UNCHANGED dbReminders
     /\ ev' = "-"
     /\ UNCHANGED <<nextRem, scheduled, remFrame>>

\* scheduleReminderNotification settles, then the local substitution
UpdateReminderSchedule(s, granted) ==
  LET o == ops[s]
      upd == [id |-> o.rem, item_id |-> dbReminders[o.rem].item_id, notify_at |-> o.at,
              is_sent |-> dbReminders[o.rem].is_sent]
  IN /\ o.kind = "updateReminder"
     /\ o.pc = "schedule"
     /\ scheduled' = scheduleReminderNotification(o.rem, o.at, granted)
     /\ UpdateReminderLocal(s, o, upd)
     /\ ev' = "-"
     /\ UNCHANGED <<dbReminders, nextRem, remFrame>>

(* ---- deleteReminder (reminders.store.ts:218-248) ---- *)
DeleteReminder(r) ==
  /\ Allowed("deleteReminder")
  /\ CanSubmit
  /\ r \in HeldRems
  /\ RemBegin([Idle EXCEPT !.kind = "deleteReminder", !.pc = "delete", !.rem = r])

\* remindersApi.deleteReminder resolves, then the local removal
DeleteReminderDone(s, ok) ==
  LET o == ops[s]
      Keep(x) == x.id # o.rem
      newAll == SelectSeq(reminders, Keep)
      newUp == SelectSeq(upcomingReminders, Keep)
      newOver == SelectSeq(overdueReminders, Keep)
      newToday == SelectSeq(todayReminders, Keep)
      newCurrent == IF currentReminder.id = o.rem THEN NoReminder ELSE currentReminder
  IN /\ o.kind = "deleteReminder"
     /\ o.pc = "delete"
     /\ IF ok
        THEN /\ dbReminders' = [dbReminders EXCEPT ![o.rem] = NoReminderRow]
             /\ reminders' = newAll
             /\ upcomingReminders' = newUp
             /\ overdueReminders' = newOver
             /\ todayReminders' = newToday
             /\ currentReminder' = newCurrent
             /\ counts' = [counts EXCEPT !.total = IF counts.total - 1 > 0 THEN counts.total - 1 ELSE 0]
             /\ remIsLoading' = FALSE
             /\ ops' = [ops EXCEPT ![s] =
                          [o EXCEPT !.pc = "done", !.result = "true",
                                    !.touched = \/ newAll # reminders
                                                \/ newUp # upcomingReminders
                                                \/ newOver # overdueReminders
                                                \/ newToday # todayReminders
                                                \/ newCurrent # currentReminder]]
             /\ UNCHANGED remError
        ELSE /\ RemCatch(s, o, "Failed to delete reminder", "false")
             /\ UNCHANGED dbReminders
     /\ ev' = "-"
     /\ UNCHANGED <<nextRem, scheduled, remFrame>>

(* ---------------------------- specification --------------------------- *)
InitDb ==
  /\ dbItems = [i \in ItemIds |->
                  IF i <= InitItems
                  THEN [exists |-> TRUE, category_id |-> IF i = 1 THEN "c1" ELSE None]
                  ELSE NoRow]
  /\ dbItemTags = {<<1, "t1">>, <<OtherItem, OtherTag>>}
  /\ dbAtt = {<<1, "f1">>, <<1, "f2">>}
  /\ blobs = {<<1, "f1">>, <<1, "f2">>}
  /\ dbCats = [c \in CatIds |-> IF c = CatOrder[1] THEN "B" ELSE None]
  /\ dbTags = [t \in TagIds |-> IF t = TagOrder[1] THEN "B" ELSE None]
  /\ nextId = InitItems + 1
  /\ dbReminders = [r \in RemIds |-> IF r = 1
                                     THEN [exists |-> TRUE, item_id |-> 1, notify_at |-> 0,
                                           is_sent |-> FALSE]
                                     ELSE NoReminderRow]
  /\ nextCat = 2
  /\ nextTag = 2
  /\ nextRem = 2
  /\ scheduled = {}

InitOtherStores ==
  /\ categories = <<>>
  /\ currentCategory = NoNamed
  /\ catIsLoading = FALSE
  /\ catError = None
  /\ tags = <<>>
  /\ tagsWithCount = <<>>
  /\ currentTag = NoNamed
  /\ selectedTagIds = <<>>
  /\ tagIsLoading = FALSE
  /\ tagError = None
  /\ reminders = <<>>
  /\ upcomingReminders = <<>>
  /\ overdueReminders = <<>>
  /\ todayReminders = <<>>
  /\ currentReminder = NoReminder
  /\ counts = [total |-> 0, upcoming |-> 0, overdue |-> 0]
  /\ remIsLoading = FALSE
  /\ remError = None
  /\ auth = [user |-> NoUser, session |-> None, isAuthenticated |-> FALSE, isLoading |-> FALSE,
             isInitialized |-> FALSE, error |-> None]
  /\ listeners = 0
  /\ persist = "none"
  /\ mounted = FALSE

\* the date a screen formats and the list the reminder center groups
InitScreens ==
  /\ relative \in IF focus = "relative" THEN {[offset |-> d, text |-> NoText] : d \in Offsets}
                  ELSE {[offset |-> 0, text |-> NoText]}
  /\ sections \in IF focus = "sections"
                  THEN UNION {{[now |-> now, list |-> list, out |-> <<>>] : list \in Lists(now)} :
                                now \in NowTicks}
                  ELSE {[now |-> 0, list |-> <<>>, out |-> <<>>]}
  /\ gate \in IF focus = "biometric"
              THEN [stored : StoredFlags, readOk : BOOLEAN, hardware : DeviceAnswers,
                    enrolled : DeviceAnswers, result : AuthResults, out : {NotChecked}]
              ELSE {[stored |-> "null", readOk |-> TRUE, hardware |-> "false",
                     enrolled |-> "false", result |-> "throws", out |-> NotChecked]}

InitItemsStore ==
  /\ items = <<>>
  /\ currentItem = NoItem
  /\ filters = initialFilters
  /\ isLoading = FALSE
  /\ isRefreshing = FALSE
  /\ error = None
  /\ page = 1
  /\ hasMore = TRUE
  /\ total = 0

Init ==
  /\ InitDb
  /\ InitItemsStore
  /\ InitOtherStores
  /\ ops = [s \in Slots |-> Idle]
  /\ ev = "-"
  /\ focus \in Scenarios
  /\ InitScreens
  /\ shown \in IF focus \in {"detail", "delete"} THEN 1..InitItems ELSE {1}

NextItems ==
  \/ \E r \in RefreshArgs : FetchItems(r)
  \/ LoadMore
  \/ \E s \in Slots, ok \in BOOLEAN : FetchItemsDone(s, ok)
  \/ \E s \in Slots : Retire(s)
  \/ \E i \in ItemIds : FetchItemById(i)
  \/ \E s \in Slots, ok \in BOOLEAN : FetchItemByIdDone(s, ok)
  \/ \E c \in ExistingCats \cup {None}, t \in SUBSET ExistingTags, f \in SUBSET Files :
        CreateItem(c, t, f)
  \/ \E s \in Slots, ok \in BOOLEAN : CreateItemInsert(s, ok)
  \/ \E s \in Slots, ok \in BOOLEAN : CreateItemTags(s, ok)
  \/ \E s \in Slots, f \in Files, ok \in BOOLEAN : CreateItemUpload(s, f, ok)
  \/ \E s \in Slots, ok \in BOOLEAN : CreateItemAttach(s, ok)
  \/ \E s \in Slots, ok \in BOOLEAN : CreateItemDone(s, ok)
  \/ \E i \in ItemIds, c \in ExistingCats \cup {None}, h \in BOOLEAN, t \in SUBSET ExistingTags :
        UpdateItem(i, c, h, t)
  \/ \E s \in Slots, ok \in BOOLEAN : UpdateItemRow(s, ok)
  \/ \E s \in Slots, ok \in BOOLEAN : UpdateItemTagsDelete(s, ok)
  \/ \E s \in Slots, ok \in BOOLEAN : UpdateItemTagsInsert(s, ok)
  \/ \E i \in ItemIds : DeleteItem(i)
  \/ \E s \in Slots, ok \in BOOLEAN : DeleteItemGetAttachments(s, ok)
  \/ \E s \in Slots, ok \in BOOLEAN : DeleteItemFiles(s, ok)
  \/ \E s \in Slots, ok \in BOOLEAN : DeleteItemRow(s, ok)
  \/ \E c \in ExistingCats : SetFilters(c)
  \/ ClearFilters
  \/ SearchItems
  \/ \E s \in Slots, ok \in BOOLEAN : SearchItemsDone(s, ok)
  \/ ClearCurrentItem
  \/ ClearError
  \/ ResetItems

NextCategories ==
  \/ FetchCategories
  \/ \E s \in Slots, ok \in BOOLEAN : FetchCategoriesDone(s, ok)
  \/ \E c \in CatIds : FetchCategoryById(c)
  \/ \E s \in Slots, ok \in BOOLEAN : FetchCategoryByIdDone(s, ok)
  \/ \E n \in Names : CreateCategory(n)
  \/ \E s \in Slots, ok \in BOOLEAN : CreateCategoryDone(s, ok)
  \/ \E c \in CatIds, n \in Names : UpdateCategory(c, n)
  \/ \E s \in Slots, ok \in BOOLEAN : UpdateCategoryDone(s, ok)
  \/ \E c \in CatIds : DeleteCategory(c)
  \/ \E s \in Slots, ok \in BOOLEAN : DeleteCategoryDetach(s, ok)
  \/ \E s \in Slots, ok \in BOOLEAN : DeleteCategoryRow(s, ok)

NextTags ==
  \/ FetchTags
  \/ \E s \in Slots, ok \in BOOLEAN : FetchTagsDone(s, ok)
  \/ FetchTagsWithCount
  \/ \E s \in Slots, ok \in BOOLEAN, counted \in SUBSET TagIds : FetchTagsWithCountDone(s, ok, counted)
  \/ \E n \in Names : CreateTag(n)
  \/ \E s \in Slots, ok \in BOOLEAN : CreateTagDone(s, ok)
  \/ \E t \in TagIds, n \in Names : UpdateTag(t, n)
  \/ \E s \in Slots, ok \in BOOLEAN : UpdateTagDone(s, ok)
  \/ \E t \in TagIds : DeleteTag(t)
  \/ \E s \in Slots, ok \in BOOLEAN : DeleteTagJoins(s, ok)
  \/ \E s \in Slots, ok \in BOOLEAN : DeleteTagRow(s, ok)
  \/ \E t \in TagIds : ToggleTagSelection(t)

NextReminders ==
  \/ FetchReminders
  \/ \E s \in Slots, ok \in BOOLEAN : FetchRemindersDone(s, ok)
  \/ \E b \in {"upcoming", "overdue", "today"} : FetchBucket(b)
  \/ \E s \in Slots, ok \in BOOLEAN : FetchBucketDone(s, ok)
  \/ \E r \in RemIds : FetchReminderById(r)
  \/ \E s \in Slots, ok \in BOOLEAN : FetchReminderByIdDone(s, ok)
  \/ \E at \in Times : CreateReminder(at)
  \/ \E s \in Slots, ok \in BOOLEAN : CreateReminderInsert(s, ok)
  \/ \E s \in Slots, granted \in BOOLEAN : CreateReminderSchedule(s, granted)
  \/ \E s \in Slots, ok \in BOOLEAN : CreateReminderList(s, ok)
  \/ \E s \in Slots, ok, okT, okU, okO \in BOOLEAN : CreateReminderCounts(s, ok, okT, okU, okO)
  \/ \E r \in RemIds, at \in Times, w \in BOOLEAN : UpdateReminder(r, at, w)
  \/ \E s \in Slots, ok \in BOOLEAN : UpdateReminderRow(s, ok)
  \/ \E s \in Slots, granted \in BOOLEAN : UpdateReminderSchedule(s, granted)
  \/ \E r \in RemIds : DeleteReminder(r)
  \/ \E s \in Slots, ok \in BOOLEAN : DeleteReminderDone(s, ok)
  \/ FetchReminderCounts
  \/ \E s \in Slots, ok, okT, okU, okO \in BOOLEAN : FetchReminderCountsDone(s, ok, okT, okU, okO)
  \/ \E r \in RemIds : MarkAsSent(r)
  \/ \E s \in Slots, ok \in BOOLEAN : MarkAsSentDone(s, ok)

\* the ids a gateway call can be handed: the caller's own and the other account's
NextTagsApi ==
  \/ \E t \in ExistingTags \cup {OtherTag} : ApiDeleteTag(t, Me)
  \/ \E s \in Slots, ok \in BOOLEAN : ApiDeleteTagJoins(s, ok)
  \/ \E s \in Slots, ok \in BOOLEAN : ApiDeleteTagRow(s, ok)
  \/ \E i \in {1, OtherItem}, T \in {{TagOrder[1]}, {OtherTag}} : ApiRemoveTagsFromItem(i, T)
  \/ \E s \in Slots, ok \in BOOLEAN : ApiRemoveTagsFromItemDone(s, ok)
  \/ \E i \in {1, OtherItem} : ApiGetTagsForItem(i)
  \/ \E s \in Slots, ok \in BOOLEAN : ApiGetTagsForItemDone(s, ok)

NextAuth ==
  \/ Initialize
  \/ \E s \in Slots, out \in {"error", "none"} \cup Sessions : InitializeSession(s, out)
  \/ \E s \in Slots, u \in {NoUser, ProviderProfile} : InitializeUser(s, u)
  \/ \E e \in {"SIGNED_IN", "SIGNED_OUT", "TOKEN_REFRESHED"}, sess \in {None} \cup Sessions :
        OnAuthStateChange(e, sess)
  \/ \E s \in Slots, u \in {NoUser, ProviderProfile} : OnSignedInUser(s, u)
  \/ SignInWithGoogle
  \/ \E s \in Slots, out \in {"url", "error", "throw", "nourl"} : SignInOAuth(s, out)
  \/ \E s \in Slots, res \in BrowserResults : SignInBrowser(s, res)
  \/ \E s \in Slots, out \in {"user", "error", "nouser"} : SignInExchange(s, out)
  \/ \E ok \in BOOLEAN : PersistDone(ok)
  \/ SignOut
  \/ \E s \in Slots, ok \in BOOLEAN : SignOutDone(s, ok)
  \/ RefreshSession
  \/ \E s \in Slots, out \in {"error", "none"} \cup Sessions : RefreshSessionDone(s, out)
  \/ \E u \in {NoUser, ProviderProfile} : SetUser(u)

Next ==
  \/ NextItems \/ NextCategories \/ NextTags \/ NextReminders \/ NextTagsApi \/ NextAuth
  \/ NextDates \/ NextBiometrics

Spec == Init /\ [][Next]_vars

(* ---------------------------- properties ------------------------------ *)
LogNames(o) == [k \in 1..Len(o.log) |-> o.log[k][1]]
LastCall(o) == IF o.log = <<>> THEN "-" ELSE o.log[Len(o.log)][1]

\* C1: loadMore called while hasMore is false issues no remote call and leaves
\* page and every other field of the Items store unchanged.
C1_LoadMoreWithoutMore ==
  [][(ev' = "loadMore" /\ ~hasMore) => UNCHANGED <<itemsVars, ops, dbVars>>]_vars

\* loadMore has just been called with hasMore false
C1_Witness == ev = "loadMore" /\ ~hasMore /\ page > 1

\* C2: loadMore is a no-op whenever a list fetch is in flight, be it a normal load
\* (isLoading) or a refresh (isRefreshing): no remote call, page unchanged.
C2_LoadMoreNoopWhileFetching ==
  [][(ev' = "loadMore" /\ (isLoading \/ isRefreshing)) => UNCHANGED <<page, ops>>]_vars

\* a list query of op s resolves successfully in this step
FetchSucceeds(s) ==
  /\ ops[s].kind \in {"fetchItems", "createItem"}
  /\ ops[s].pc = "getItems"
  /\ ops'[s].pc # "getItems"
  /\ error' = None

\* C3: a successful fetchItems(refresh = true) sets page to 1 and replaces items
\* with exactly the page-1 result; a successful fetchItems(refresh = false) keeps
\* the held items as a prefix and appends the returned page; total and hasMore
\* come from the response in both cases.
C3_FetchItemsMerge ==
  [][\A s \in Slots : FetchSucceeds(s) =>
        LET o == ops[s]
            r == getItems(o.filt, IF o.refresh THEN 1 ELSE o.page)
        IN /\ IF o.refresh
              THEN page' = 1 /\ items' = getItems(o.filt, 1).data
              ELSE /\ Len(items') = Len(items) + Len(r.data)
                   /\ SubSeq(items', 1, Len(items)) = items
                   /\ SubSeq(items', Len(items) + 1, Len(items')) = r.data
           /\ total' = r.total
           /\ hasMore' = r.hasMore]_vars

\* a second page has been appended behind a held first page
C3_Witness == Len(items) > PageLimit /\ page > 1 /\ error = None

\* the order of createItem's remote steps
CreateOrder == <<"insert", "addTags", "upload", "attach", "refresh">>
CreateSteps(tagIds, files) ==
  SelectSeq(CreateOrder, LAMBDA n : /\ (n = "addTags" => tagIds # {})
                                    /\ (n \in {"upload", "attach"} => files # {}))

\* createItem of op s completes in this step with every remote step successful
CreateSucceeds(s) ==
  /\ ops[s].kind = "createItem"
  /\ ops[s].pc = "getItems"
  /\ ops'[s].pc = "done"
  /\ ~ops'[s].failedCall

\* the held collection has the created item with its tags and one attachment per file
HoldsCreated(held, o) ==
  \E k \in 1..Len(held) :
     /\ held[k].id = o.item
     /\ held[k].tags = o.tagIds
     /\ Cardinality(held[k].attachments) = Cardinality(o.files)

\* C5 as stated: createItem issues item insert, tag-join insert, uploads,
\* attachment insert, refresh in this order, and when every step succeeds the
\* resulting items collection contains the new item with its tags and attachments.
C5_CreateItemAsStated ==
  [][\A s \in Slots : CreateSucceeds(s) =>
        /\ LogNames(ops'[s]) = CreateSteps(ops[s].tagIds, ops[s].files)
        /\ HoldsCreated(items', ops[s])]_vars

\* C5 (amended): the order holds as stated; the resulting collection contains the
\* new item with its tags and attachments when the filters the refresh queried
\* with admit the item.
C5_CreateItemSequence ==
  [][\A s \in Slots : CreateSucceeds(s) =>
        /\ LogNames(ops'[s]) = CreateSteps(ops[s].tagIds, ops[s].files)
        /\ (ops[s].filt.categoryId \in {None, ops[s].cat} => HoldsCreated(items', ops[s]))]_vars

\* a createItem with a tag and two files has completed and its item is held
C5_Witness ==
  \E s \in Slots :
     /\ ops[s].kind = "createItem"
     /\ ops[s].result = "item"
     /\ ~ops[s].failedCall
     /\ LogNames(ops[s]) = CreateOrder
     /\ Cardinality(ops[s].files) = 2
     /\ HoldsCreated(items, ops[s])

\* C6: a failure of one file's upload does not abort createItem: a createItem that
\* has ended with the upload as its last remote step has not failed.
C6_UploadFailureTolerated ==
  \A s \in Slots :
     (ops[s].kind = "createItem" /\ ops[s].pc = "done" /\ LastCall(ops[s]) = "upload")
        => ops[s].result = "item"

\* deleteItem of op s completes successfully in this step
DeleteSucceeds(s) ==
  /\ ops[s].kind = "deleteItem"
  /\ ops[s].pc # "done"
  /\ ops'[s].pc = "done"
  /\ ops'[s].result = "true"

\* C7: deleteItem on an item with N >= 1 attachments issues exactly one blob-delete
\* call carrying all N paths, then one row delete, then removes the item from the
\* held collection; with no attachments it issues no blob-delete call.
C7_DeleteItemCalls ==
  [][\A s \in Slots : DeleteSucceeds(s) =>
        LET o == ops'[s] IN
        /\ o.log = <<<<"getAttachments", {}>>>>
                     \o (IF o.up = {} THEN <<>> ELSE <<<<"remove", o.up>>>>)
                     \o <<<<"deleteRow", {}>>, <<"localRemove", {}>>>>
        /\ \A k \in 1..Len(items') : items'[k].id # o.item]_vars

\* an item with two attachments has been deleted
C7_Witness ==
  \E s \in Slots :
     ops[s].kind = "deleteItem" /\ ops[s].result = "true" /\ Cardinality(ops[s].up) = 2

\* C8: the blob deletion of deleteItem is best-effort: a deleteItem that has ended
\* with the blob delete as its last remote step has still deleted the row.
C8_BlobDeleteBestEffort ==
  \A s \in Slots :
     (ops[s].kind = "deleteItem" /\ ops[s].pc = "done" /\ LastCall(ops[s]) = "remove")
        => ops[s].result = "true" /\ ~dbItems[ops[s].item].exists

\* the collections and current-record slots of the four stores
heldVars == <<items, currentItem, categories, currentCategory, tags, tagsWithCount, currentTag,
              selectedTagIds, reminders, upcomingReminders, overdueReminders, todayReminders,
              currentReminder>>

\* C4 as stated: for every create, update and delete action of the four stores, if
\* any remote call made by the action fails, the action leaves the store's
\* collections and current-record slot as they were before it started.
C4_AnyFailedCallLeavesCollections ==
  \A s \in Slots :
     (ops[s].kind \in Mutations /\ ops[s].pc = "done" /\ ops[s].failedCall) => ~ops[s].touched

\* C4 (amended): when a create, update or delete action fails (a gateway call
\* throws into its catch block and the action returns null / false), the step that
\* fails it and every earlier step of the action leave the stores' collections and
\* current-record slots as they were.
C4_FailedMutationLeavesCollections ==
  [][\A s \in Slots :
        (/\ ops[s].kind \in Mutations
         /\ ops[s].pc # "done"
         /\ ops'[s].pc = "done"
         /\ ops'[s].result \in {"null", "false"})
        => (~ops'[s].touched /\ UNCHANGED heldVars)]_vars

\* a deleteItem has failed and the item it was to delete is still held
C4_Witness ==
  \E s \in Slots :
     /\ ops[s].kind = "deleteItem"
     /\ ops[s].result = "false"
     /\ \E k \in 1..Len(items) : items[k].id = ops[s].item

\* C9: after deleteCategory(c) has resolved successfully, every item that
\* referenced c still exists and no item row references c, also when the
\* detaching update reported an error.
C9_NoItemReferencesDeletedCategory ==
  \A s \in Slots :
     (ops[s].kind = "deleteCategory" /\ ops[s].result = "true")
        => \A i \in ItemIds : dbItems[i].category_id # ops[s].cat

\* C10: in every state where a tag's row is gone, no item_tags row with that tag id
\* remains.
C10_NoJoinRowOfDeletedTag ==
  \A t \in TagIds : dbTags[t] = None => \A r \in dbItemTags : r[2] # t

IsSortedByName(coll) ==
  \A j, k \in 1..Len(coll) : j < k => NameRank(coll[j].name) <= NameRank(coll[k].name)

ItemsKinds == {"fetchItems", "loadMore", "fetchItemById", "createItem", "updateItem", "deleteItem",
               "searchItems"}
CategoriesKinds == {"fetchCategories", "fetchCategoryById", "createCategory", "updateCategory",
                    "deleteCategory"}
TagsKinds == {"fetchTags", "fetchTagsWithCount", "createTag", "updateTag", "deleteTag"}
CaughtResults == {"null", "false", "[]", "void"}
ErrorOfStore(kind, e, ce, te, re) ==
  IF kind \in ItemsKinds THEN e
  ELSE IF kind \in CategoriesKinds THEN ce
  ELSE IF kind \in TagsKinds THEN te ELSE re
Caught(s) ==
  /\ ops[s].pc # "done"
  /\ ops'[s].pc = "done"
  /\ ops'[s].failedCall
  /\ ops'[s].result \in CaughtResults

\* C12: whenever a store action ends in its catch block after a gateway call threw,
\* the error string of its store is non-null in the state the catch block leaves
\* (searchItems, the bucket fetches, fetchReminderCounts and markAsSent included).
C12_ThrowSetsError ==
  [][\A s \in Slots :
       Caught(s) => ErrorOfStore(ops[s].kind, error', catError', tagError', remError') # None]_vars

\* C13: no gateway call made with the signed-in user's id deletes a join row of
\* another account's item and tag, or returns another account's tag.
C13_OtherOwnersRowsUntouched ==
  /\ <<OtherItem, OtherTag>> \in dbItemTags
  /\ \A s \in Slots : OtherTag \notin ops[s].read

\* a sign-in whose callback carried an access token that decodes returns in this step
TokenSignInReturns(s) ==
  /\ ops[s].kind = "signInWithGoogle"
  /\ ops[s].pc = "browser"
  /\ ops'[s].pc = "done"
  /\ ops'[s].tag # None
  /\ Decodes(ops'[s].tag)

C15_CancelIsNotAnError ==
  [][\A s \in Slots :
       (/\ ops[s].kind = "signInWithGoogle"
        /\ ops[s].pc = "browser"
        /\ ops'[s].pc = "done"
        /\ ops'[s].name \in {"cancel", "dismiss"})
       => /\ auth'.error = None
          /\ ops'[s].err = None
          /\ ~auth'.isAuthenticated]_vars

\* C16: once initialize() has completed, whatever the session lookup returned, the
\* store is initialized and a listener for the provider's session events is registered.
C16_InitializeSubscribes ==
  (mounted /\ \A s \in Slots : ~(ops[s].kind = "initialize" /\ ops[s].pc # "done"))
    => (auth.isInitialized /\ listeners > 0)

\* C17: in no reachable state of the Items store are isLoading and isRefreshing both
\* true.
C17_LoadingExcludesRefreshing == ~(isLoading /\ isRefreshing)

\* C18: when a fetchItems(refresh = true) call that overlapped another successful
\* refresh completes successfully after it, items, total and hasMore are those of
\* its own response, whichever of the two calls was issued first.
C18_LastResponseWins ==
  [][\A s \in Slots :
       (FetchSucceeds(s) /\ ops[s].kind = "fetchItems" /\ ops[s].refresh /\ ops[s].overtaken)
       => LET r == getItems(ops[s].filt, 1)
          IN items' = r.data /\ total' = r.total /\ hasMore' = r.hasMore]_vars

\* a refresh issued under no filter has just completed after an overlapping one: the
\* store holds its response, not the list of the filters set since
C18_Witness ==
  /\ ev = "lastRefresh:" \o None
  /\ filters.categoryId # None
  /\ items = getItems(initialFilters, 1).data
  /\ items # getItems(filters, 1).data

\* C19: for whole-second offsets from now, formatRelativeTime gives 'Just now' for d
\* seconds in the past with d < 60, 'm minute(s) ago' with m = floor(d / 60) for
\* 60 <= d < 3600, and 'in n days' for exactly n days in the future with 2 <= n < 7.
C19_RelativeTimeAsStated ==
  relative.text # NoText =>
    LET d == 0 - relative.offset
        m == d \div SecondsPerMinute
    IN /\ (d >= 0 /\ d < SecondsPerMinute) => relative.text = JustNow
       /\ (d >= SecondsPerMinute /\ d < SecondsPerMinute * MinutesPerHour)
            => relative.text = Phrase(FALSE, m, "minute", "minutes")
       /\ \A n \in 2..(DaysPerWeek - 1) :
            relative.offset = n * SecondsPerDay => relative.text = Phrase(TRUE, n, "day", "days")

\* the titles of the rendered sections that hold position k of the list
TitlesHolding(k) ==
  {sections.out[j].title : j \in {i \in 1..Len(sections.out) : k \in Range(sections.out[i].data)}}
NearAhead == sections.now + NearDays * TicksPerDay
FarAhead == sections.now + FarDays * TicksPerDay

\* C20 as stated: every listed reminder is in exactly one section, chosen by the
\* calendar date of its notify-at: yesterday or earlier Overdue, any time of today
\* Today, exactly 3 days ahead This Week, 40 days ahead Later.
C20_BucketsByCalendarDate ==
  sections.out # <<>> =>
    \A k \in 1..Len(sections.list) :
      LET t == sections.list[k] IN
      /\ Cardinality(TitlesHolding(k)) = 1
      /\ DayOf(t) < DayOf(sections.now) => TitlesHolding(k) = {"Overdue"}
      /\ DayOf(t) = DayOf(sections.now) => TitlesHolding(k) = {"Today"}
      /\ t = NearAhead => TitlesHolding(k) = {"This Week"}
      /\ t = FarAhead => TitlesHolding(k) = {"Later"}

\* C20 (amended): every listed reminder is in exactly one section; a notify-at before
\* the current instant, earlier today included, is Overdue; one at or after the
\* current instant on today's date is Today; exactly 3 days ahead is This Week and
\* 40 days ahead is Later.
C20_BucketsByInstantThenDate ==
  sections.out # <<>> =>
    \A k \in 1..Len(sections.list) :
      LET t == sections.list[k] IN
      /\ Cardinality(TitlesHolding(k)) = 1
      /\ t < sections.now => TitlesHolding(k) = {"Overdue"}
      /\ (t >= sections.now /\ DayOf(t) = DayOf(sections.now)) => TitlesHolding(k) = {"Today"}
      /\ t = NearAhead => TitlesHolding(k) = {"This Week"}
      /\ t = FarAhead => TitlesHolding(k) = {"Later"}

\* the rendered list holds a reminder of earlier today and one exactly 3 days ahead
C20_Witness ==
  /\ sections.out # <<>>
  /\ \E k \in 1..Len(sections.list) :
       sections.list[k] < sections.now /\ DayOf(sections.list[k]) = DayOf(sections.now)
  /\ \E k \in 1..Len(sections.list) : sections.list[k] = NearAhead

\* createItem / updateItem of op s ends in this step after its item-row insert /
\* update had succeeded
EndsAfterPrimary(s) ==
  /\ ops[s].kind \in {"createItem", "updateItem"}
  /\ ops[s].pc # "done"
  /\ ops'[s].pc = "done"
  /\ IF ops[s].kind = "createItem" THEN ops'[s].item # 0 ELSE Len(ops'[s].log) >= 2

\* C22: when createItem's item-row insert (updateItem's item-row update) has
\* succeeded, the action returns the item (non-null), also when a later step
\* (tag-join insert / replace, upload, attachment insert) fails.
C22_PrimarySuccessReported ==
  [][\A s \in Slots : EndsAfterPrimary(s) => ops'[s].result = "item"]_vars

\* updateItem of op s returns its item in this step
UpdateSucceeds(s) ==
  /\ ops[s].kind = "updateItem"
  /\ ops[s].pc # "done"
  /\ ops'[s].pc = "done"
  /\ ops'[s].result = "item"
  /\ ~ops'[s].failedCall

\* C23: after updateItem(itemId, owner, updates, tagIds) succeeds, the held entry of
\* itemId in items, and currentItem when it is that item, equal what a fresh fetch of
\* the item returns: its tags are tagIds and its category relation is the new one.
C23_HeldEntryMatchesFetch ==
  [][\A s \in Slots : UpdateSucceeds(s) =>
        LET i == ops[s].item
            fresh == [id |-> i,
                      category_id |-> dbItems'[i].category_id,
                      category |-> IF dbItems'[i].category_id # None
                                      /\ dbCats'[dbItems'[i].category_id] # None
                                   THEN dbItems'[i].category_id ELSE None,
                      attachments |-> {a \in dbAtt' : a[1] = i},
                      tags |-> {t \in TagIds : <<i, t>> \in dbItemTags' /\ dbTags'[t] # None}]
        IN /\ \A k \in 1..Len(items') : items'[k].id = i => items'[k] = fresh
           /\ currentItem'.id = i => currentItem' = fresh]_vars

\* result pages 1..n of the list query, one behind the other
RECURSIVE PagesUpTo(_, _)
PagesUpTo(filt, n) == IF n = 0 THEN <<>> ELSE PagesUpTo(filt, n - 1) \o getItems(filt, n).data

\* no list fetch is in flight
Quiescent == \A s \in Slots : ops[s].kind \notin {"fetchItems", "createItem"}

\* C24: with unchanging server data and filters (the list screen only refreshing and
\* loading more), in every state with no fetch in flight and a non-empty list, items
\* is the concatenation of the result pages 1..page.
C24_ItemsArePagesUpToCursor ==
  (focus = "paging" /\ Quiescent /\ items # <<>>) => items = PagesUpTo(filters, page)

\* the append of a loadMore (op s) fails in this step
LoadMoreFails(s) ==
  /\ ops[s].kind = "fetchItems"
  /\ ~ops[s].refresh
  /\ ops[s].pc = "getItems"
  /\ ops'[s].pc # "getItems"
  /\ error' # None

\* C25: a loadMore whose remote fetch fails leaves page as it was before the call
\* (the call had read page = p and requested p + 1).
C25_FailedLoadMoreKeepsPage ==
  [][\A s \in Slots : LoadMoreFails(s) => page' = ops[s].page - 1]_vars

\* C26: total of the Items store is never negative.
C26_TotalNeverNegative == total >= 0

\* C21: a category or tag create / update issued from the screens whose name
\* already exists for the owner (ignoring case, the edited record excluded) is not
\* sent to the gateway.
C21_DuplicateNameNotSent ==
  [][\A s \in Slots :
       ops[s].kind = "idle" =>
         /\ ops'[s].kind \in {"createCategory", "updateCategory"}
              => ~categoryNameExists(ops'[s].name, ops'[s].cat)
         /\ ops'[s].kind \in {"createTag", "updateTag"}
              => ~tagNameExists(ops'[s].name, ops'[s].tag)]_vars

\* C27: in every state of the Auth store isAuthenticated is true exactly when user
\* is non-null.
C27_AuthenticatedIffUser == auth.isAuthenticated <=> (auth.user # NoUser)

\* setUser(null) has signed out a user that initialize had found
C27_Witness ==
  /\ ev = "setUser"
  /\ auth.user = NoUser
  /\ ~auth.isAuthenticated
  /\ auth.session # None

\* a signInWithGoogle call has returned success
SignInReturned ==
  \E s \in Slots : ops[s].kind = "signInWithGoogle" /\ ops[s].pc = "done" /\ ops[s].result = "success"

\* C28: once signInWithGoogle has returned success, isAuthenticated is turned false
\* and user is cleared only by a signOut call, a SIGNED_OUT event or a failed
\* refreshSession; the listener's handling of a SIGNED_IN event does neither.
C28_SignedInStaysAuthenticated ==
  [][(SignInReturned /\ auth.isAuthenticated /\ (~auth'.isAuthenticated \/ auth'.user = NoUser))
       => ev' \in {"signOut", "SIGNED_OUT", "refreshFailed"}]_vars

\* C29: whenever the stored biometric-lock flag is enabled, performBiometricCheck
\* returns success only if the biometric authentication itself succeeded (the device
\* supports and has enrolled biometrics and authenticateAsync reported success), also
\* when reading the flag from the secure store fails.
C29_BiometricGateFailClosed ==
  (gate.out.success /\ gate.stored = "true")
    => (gate.hardware = "true" /\ gate.enrolled = "true" /\ gate.result = "success")

\* no createReminder / updateReminder / deleteReminder is in flight
NoReminderMutation ==
  \A s \in Slots :
     ops[s].kind \in {"createReminder", "updateReminder", "deleteReminder"} => ops[s].pc = "done"

\* C30: once the reminder mutations have settled, every pending local notification
\* belongs to an existing reminder whose notify-at is the notification's trigger
\* time (none is left for the old time of an updated reminder or for a deleted one).
C30_PendingNotificationsMatchReminders ==
  NoReminderMutation =>
    \A n \in scheduled : dbReminders[n[1]].exists /\ dbReminders[n[1]].notify_at = n[2]

====
